---------------------------- MODULE Spec2Model ----------------------------
(***************************************************************************)
(* SmartFrame canvas extractor (src/smartframe_extractor.py).              *)
(*                                                                         *)
(* Two state machines are modelled.                                        *)
(*                                                                         *)
(*  Spec / LiveSpec : the canvas-capture protocol of the three injected    *)
(*     scripts (page initializer, content relay, service-worker bridge     *)
(*     with its findCanvas retry loop) for one page load.                  *)
(*  SpecMeta : extract_smartframe_metadata, the structured pass followed   *)
(*     by the fallback text pass, applied to bounded page texts.           *)
(*                                                                         *)
(* Text is a sequence of tokens: one token per marker ("When:", ...), per  *)
(* word, and per separator (space, no-break space, newline, comma).        *)
(***************************************************************************)
EXTENDS Integers, Sequences, FiniteSets, TLC

VARIABLES
    \* ---- page context (INJECTED_JAVASCRIPT_FOR_EXTENSION) ----
    injected,               \* the init script has run in this page load
    pendingTriggers,        \* registered lifecycle hooks / timers not yet fired
    extractionInitialized,  \* the guard flag of initSmartFrameExtraction
    initRuns,               \* history: how often the initializer body ran
    settlePending,          \* pending 3000 ms settle timers set by the initializer
    posted,                 \* history: GET_CANVAS_DATA messages posted by the page
    winQueue,               \* message events posted to window, not yet delivered
    \* ---- DOM of the page ----
    embedInDom,             \* "absent" | "present" | "removed": the target smartframe-embed
    cachedRoot,             \* window.__smartFrameShadowRoot ("none" when null)
    shadowMode,             \* per embed element: "no" | "open" | "closed" shadow root
    dom,                    \* canvases of each location, in document order
    nextCanvasId,           \* identity given to the next canvas rendered
    markers,                \* #extension-response-data elements appended to body,
                            \* each with the request it answers (history)
    \* ---- relay and bridge ----
    requests,               \* getCanvasDataURL requests, one record per request
    foreignDelivered,       \* history: message events of other senders delivered
    \* ---- metadata pipeline (extract_smartframe_metadata) ----
    mpc,                    \* "idle" | "start" | "structured" | "done"
    page,                   \* the texts the page's locators yield
    metadata,               \* the MetadataRecord being filled
    afterStructured,        \* history: the record at the end of the structured pass
    \* ---- tag writer (write_metadata_to_image) ----
    tpc,                    \* "idle" | "start" | "done"
    command,                \* the field assignments of the ExifTool command
    toolRuns,               \* history: how often ExifTool was executed
    written,                \* the return value ("none" before the return)
    \* ---- batch (run_main_script, process_url) ----
    urls,                   \* the URLs of the batch, in input order
    urlIndex,               \* the URL the for loop is at
    upc,                    \* position in process_url, "next" between two URLs
    batch,                  \* "running" | "done" | "aborted" (exception left the loop)
    allResults,             \* all_results
    openContexts,           \* browser contexts launched and not yet closed
    responseMarker,         \* the marker element the wait found (NoMarker before)
    smartframeMetadata,     \* whether extract_smartframe_metadata found any value
    pageResult,             \* page_result of the running process_url
    history,                \* per URL: what process_url did for it
    \* ---- calls of the parsing helpers ----
    fname,                  \* the function called ("none" when none)
    fpc,                    \* "idle", "called" or "returned"
    fin,                    \* its argument
    fout                    \* its return value, once returned

vars == << injected, pendingTriggers, extractionInitialized, initRuns, settlePending,
           posted, winQueue, embedInDom, cachedRoot, shadowMode, dom, nextCanvasId,
           markers, requests, foreignDelivered, mpc, page, metadata, afterStructured,
           tpc, command, toolRuns, written, urls, urlIndex, upc, batch, allResults,
           openContexts, responseMarker, smartframeMetadata, pageResult, history,
           fname, fpc, fin, fout >>

jsVars == << injected, pendingTriggers, extractionInitialized, initRuns, settlePending,
             posted, winQueue, embedInDom, cachedRoot, shadowMode, dom, nextCanvasId,
             markers, requests, foreignDelivered >>

metaVars == << mpc, page, metadata, afterStructured >>

tagVars == << tpc, command, toolRuns, written >>

batchVars == << urls, urlIndex, upc, batch, allResults, openContexts, responseMarker,
               smartframeMetadata, pageResult, history >>

callVars == << fname, fpc, fin, fout >>

\* the variables of the Python side
pyVars == << metaVars, tagVars, batchVars, callVars >>

-----------------------------------------------------------------------------
(* Bounds of the model.                                                    *)

\* canvases the page renders during one page load
MaxCanvases == 2
\* message events of other senders (frames, other message types) delivered
MaxForeign == 1

-----------------------------------------------------------------------------
(* Program constants.                                                      *)

\* findCanvas(maxAttempts = 15, delay = 1000)
maxAttempts == 15

-----------------------------------------------------------------------------
(* The DOM: embed elements, their shadow roots, canvases.                  *)

\* "e1" is the smartframe-embed the selector lists resolve to, "e2" another
\* smartframe-embed of the page (a thumbnail, a second embed).
Elements == {"e1", "e2"}

RootOf(e) == IF e = "e1" THEN "r1" ELSE "r2"

Locations == {"r1", "r2", "doc"}

NoCanvas == [id |-> 0, stage |-> FALSE, dims |-> FALSE]

\* element.shadowRoot: the root of an open shadow tree, null otherwise
ShadowRootProperty(mode) == IF mode["e1"] = "open" THEN "r1" ELSE "none"

\* whether canvas c matches 'canvas.stage', 'canvas[width][height]', 'canvas'
Matches(c, sel) ==
    CASE sel = "canvas.stage" -> c.stage
      [] sel = "canvas[width][height]" -> c.dims
      [] OTHER -> TRUE

\* root.querySelector(sel): the first element in document order that matches
QuerySelector(canvases, sel) ==
    IF \E i \in 1..Len(canvases) : Matches(canvases[i], sel)
    THEN canvases[CHOOSE i \in 1..Len(canvases) :
                     /\ Matches(canvases[i], sel)
                     /\ \A j \in 1..(i-1) : ~Matches(canvases[j], sel)]
    ELSE NoCanvas

\* querySelector('canvas.stage'), else querySelector('canvas')
SearchShadowRoot(canvases) ==
    LET staged == QuerySelector(canvases, "canvas.stage")
    IN  IF staged # NoCanvas THEN staged ELSE QuerySelector(canvases, "canvas")

\* 'canvas.stage', else 'canvas[width][height]', else 'canvas'
SearchDocument(canvases) ==
    LET staged == QuerySelector(canvases, "canvas.stage")
        sized  == QuerySelector(canvases, "canvas[width][height]")
    IN  IF staged # NoCanvas THEN staged
        ELSE IF sized # NoCanvas THEN sized
        ELSE QuerySelector(canvases, "canvas")

\* (mutant) the document is searched before the shadow roots
TryFindCanvas_DocumentFirst(cached, own, d) ==
    LET c1 == SearchDocument(d["doc"])
        c2 == IF c1 # NoCanvas THEN c1
              ELSE IF cached # "none" THEN SearchShadowRoot(d[cached]) ELSE NoCanvas
    IN  IF c2 # NoCanvas THEN c2
        ELSE IF own # "none" THEN SearchShadowRoot(d[own]) ELSE NoCanvas

\* The canvas one tryFind attempt ends with (NoCanvas when it finds none).
TryFindCanvas(cached, own, d) ==
    LET c1 == IF cached # "none" THEN SearchShadowRoot(d[cached]) ELSE NoCanvas
        c2 == IF c1 # NoCanvas THEN c1
              ELSE IF own # "none" THEN SearchShadowRoot(d[own]) ELSE NoCanvas
    IN  IF c2 # NoCanvas THEN c2 ELSE SearchDocument(d["doc"])

-----------------------------------------------------------------------------
(* Messages and replies.                                                   *)

\* a message event as the relay's listener sees it
SelfGet == [origin |-> "page", source |-> "window", type |-> "GET_CANVAS_DATA"]

\* events of other senders: a same-origin frame, a cross-origin frame, and
\* the page's own window posting another message type or no data
ForeignEvents ==
    { [origin |-> "page",  source |-> "frame",  type |-> "GET_CANVAS_DATA"],
      [origin |-> "other", source |-> "frame",  type |-> "GET_CANVAS_DATA"],
      [origin |-> "page",  source |-> "window", type |-> "OTHER"],
      [origin |-> "page",  source |-> "window", type |-> "none"] }

\* A value crossing a context boundary: a plain object with the optional
\* properties dataUrl and error ("" when the property is absent), or undefined.
\* canvas tells which canvas the pixels of dataUrl were exported from.
Undefined == [defined |-> FALSE, dataUrl |-> "", error |-> "", canvas |-> 0]

DataUrlResult(c) ==
    [defined |-> TRUE, dataUrl |-> "data:image/png;base64,", error |-> "", canvas |-> c]

ErrorResult(t) == [defined |-> TRUE, dataUrl |-> "", error |-> t, canvas |-> 0]

NewRequest(ev) ==
    [ from     |-> ev,          \* the message event that caused the request
      phase    |-> "sent",      \* position of the request in the relay/bridge
      attempts |-> 0,           \* findCanvas: let attempts
      timers   |-> 0,           \* findCanvas: pending setTimeout(tryFind, delay)
      canvas   |-> 0,           \* findCanvas: the canvas it resolved with
      result   |-> Undefined,   \* the value the injected func returns
      reply    |-> Undefined,   \* the value passed to sendResponse
      replies  |-> 0 ]          \* history: calls of sendResponse

\* (mutant) the test event.source !== window is missing
RelayAccepts_NoSourceTest(ev) ==
    /\ ev.origin = "page"
    /\ ev.type = "GET_CANVAS_DATA"

\* the relay's three tests of a message event
RelayAccepts(ev) ==
    /\ ev.origin = "page"
    /\ ev.source = "window"
    /\ ev.type = "GET_CANVAS_DATA"

\* an attribute of the marker element
NoAttr == [present |-> FALSE, value |-> ""]

Attr(v) == [present |-> TRUE, value |-> v]

\* (mutant) data-error is written on the success path as well
MarkerForResponse_AlwaysError(response) ==
    LET errorMsg == IF response.defined /\ response.error # ""
                    THEN response.error
                    ELSE "Unknown error: No data URL returned."
    IN  [dataUrl |-> IF response.defined /\ response.dataUrl # ""
                     THEN Attr(response.dataUrl) ELSE NoAttr,
         dataError |-> Attr(errorMsg), canvas |-> response.canvas]

\* (mutant) the relay writes its own text instead of the response's error
MarkerForResponse_OwnText(response) ==
    IF response.defined /\ response.dataUrl # ""
    THEN [dataUrl |-> Attr(response.dataUrl), dataError |-> NoAttr,
          canvas |-> response.canvas]
    ELSE [dataUrl |-> NoAttr, dataError |-> Attr("Unknown error: No data URL returned."),
          canvas |-> 0]

\* the marker element the relay's then-callback builds from the response
MarkerForResponse(response) ==
    IF response.defined /\ response.dataUrl # ""
    THEN [dataUrl |-> Attr(response.dataUrl), dataError |-> NoAttr,
          canvas |-> response.canvas]
    ELSE LET errorMsg == IF response.defined /\ response.error # ""
                         THEN response.error
                         ELSE "Unknown error: No data URL returned."
         IN  [dataUrl |-> NoAttr, dataError |-> Attr(errorMsg), canvas |-> 0]

\* the marker element the relay's catch-callback builds
MarkerForFailure ==
    [dataUrl |-> NoAttr, dataError |-> Attr("Communication error: Error"), canvas |-> 0]

\* no marker element in the page
NoMarker == [dataUrl |-> NoAttr, dataError |-> NoAttr, canvas |-> 0]

-----------------------------------------------------------------------------
(* Initial state of a page load: nothing injected yet.  The page may       *)
(* already hold the target element (with or without a shadow root) when    *)
(* the init script runs in a document that is no longer loading.           *)

InitPage ==
    /\ injected = FALSE
    /\ pendingTriggers = {}
    /\ extractionInitialized = FALSE
    /\ initRuns = 0
    /\ settlePending = 0
    /\ posted = 0
    /\ winQueue = << >>
    /\ embedInDom \in {"absent", "present"}
    /\ cachedRoot = "none"
    /\ shadowMode \in [Elements -> {"no", "open", "closed"}]
    /\ shadowMode["e2"] = "no"
    /\ (embedInDom = "absent" => shadowMode["e1"] = "no")
    /\ dom = [l \in Locations |-> << >>]
    /\ nextCanvasId = 1
    /\ markers = << >>
    /\ requests = << >>
    /\ foreignDelivered = 0

MetaIdle ==
    /\ mpc = "idle"
    /\ page = << >>
    /\ metadata = << >>
    /\ afterStructured = << >>

\* no process_url is running: there is no page_result
NoPageResult ==
    [ OriginalURL |-> [id |-> 0, kind |-> "none"], Status |-> "none",
      OutputFilename |-> "none", ErrorMessage |-> << >> ]

\* write_metadata_to_image is not running
TagIdle ==
    /\ tpc = "idle"
    /\ command = << >>
    /\ toolRuns = 0
    /\ written = "none"

\* run_main_script is not running
BatchIdle ==
    /\ urls = << >>
    /\ urlIndex = 1
    /\ upc = "idle"
    /\ batch = "idle"
    /\ allResults = << >>
    /\ openContexts = 0
    /\ responseMarker = NoMarker
    /\ smartframeMetadata = FALSE
    /\ pageResult = NoPageResult
    /\ history = << >>

\* no parsing helper is being called
CallIdle ==
    /\ fname = "none"
    /\ fpc = "idle"
    /\ fin = << >>
    /\ fout = << >>

-----------------------------------------------------------------------------
(* The page and its scripts (the environment of the injected scripts).     *)

\* the page inserts the target smartframe-embed element
EmbedAppears ==
    /\ injected
    /\ embedInDom = "absent"
    /\ embedInDom' = "present"
    /\ UNCHANGED << injected, pendingTriggers, extractionInitialized, initRuns,
                    settlePending, posted, winQueue, cachedRoot, shadowMode, dom,
                    nextCanvasId, markers, requests, foreignDelivered, pyVars >>

\* the page removes the target element again
EmbedRemoved ==
    /\ injected
    /\ embedInDom = "present"
    /\ embedInDom' = "removed"
    /\ UNCHANGED << injected, pendingTriggers, extractionInitialized, initRuns,
                    settlePending, posted, winQueue, cachedRoot, shadowMode, dom,
                    nextCanvasId, markers, requests, foreignDelivered, pyVars >>

\* The hooked Element.prototype.attachShadow, called on smartframe-embed e.
\* matches: the element has the target image id or matches the target selector.
ShouldCapture(matches, cached) == matches \/ cached = "none"

AttachShadow(e, mode, matches) ==
    /\ injected
    /\ shadowMode[e] = "no"
    /\ e = "e2" => mode = "closed"
    /\ shadowMode' = [shadowMode EXCEPT ![e] = mode]
    /\ cachedRoot' = IF ShouldCapture(matches, cachedRoot) THEN RootOf(e) ELSE cachedRoot
    /\ UNCHANGED << injected, pendingTriggers, extractionInitialized, initRuns,
                    settlePending, posted, winQueue, embedInDom, dom,
                    nextCanvasId, markers, requests, foreignDelivered, pyVars >>

\* the embed renders a canvas into a shadow tree or the page into the document
RenderCanvas(loc, stage, dims) ==
    /\ injected
    /\ nextCanvasId <= MaxCanvases
    /\ loc # "doc" => /\ \E e \in Elements : RootOf(e) = loc /\ shadowMode[e] # "no"
                      /\ dims = FALSE
    /\ dom' = [dom EXCEPT ![loc] =
                 Append(@, [id |-> nextCanvasId, stage |-> stage, dims |-> dims])]
    /\ nextCanvasId' = nextCanvasId + 1
    /\ UNCHANGED << injected, pendingTriggers, extractionInitialized, initRuns,
                    settlePending, posted, winQueue, embedInDom, cachedRoot, shadowMode,
                    markers, requests, foreignDelivered, pyVars >>

-----------------------------------------------------------------------------
(* Page-context initializer.                                               *)

\* (mutant) the guard never returns early
InitGuardReturns_Never(flag) == FALSE

\* the guard at the top of initSmartFrameExtraction
InitGuardReturns(flag) == flag

\* (mutant) the settle timer is set also when no element resolves
InitSmartFrameExtraction_NoElementTest ==
    IF InitGuardReturns(extractionInitialized)
    THEN UNCHANGED << extractionInitialized, initRuns, cachedRoot, settlePending >>
    ELSE IF embedInDom # "present"
    THEN /\ settlePending' = settlePending + 1
         /\ UNCHANGED << extractionInitialized, initRuns, cachedRoot >>
    ELSE /\ extractionInitialized' = TRUE
         /\ initRuns' = initRuns + 1
         /\ cachedRoot' = IF cachedRoot = "none" /\ ShadowRootProperty(shadowMode) # "none"
                          THEN ShadowRootProperty(shadowMode)
                          ELSE cachedRoot
         /\ settlePending' = settlePending + 1

\* initSmartFrameExtraction(): nothing when already initialized or when no
\* element resolves; otherwise the body: flag, shadow-root slot, size forcing,
\* resize event and the settle timer.
InitSmartFrameExtraction ==
    IF InitGuardReturns(extractionInitialized) \/ embedInDom # "present"
    THEN UNCHANGED << extractionInitialized, initRuns, cachedRoot, settlePending >>
    ELSE /\ extractionInitialized' = TRUE
         /\ initRuns' = initRuns + 1
         /\ cachedRoot' = IF cachedRoot = "none" /\ ShadowRootProperty(shadowMode) # "none"
                          THEN ShadowRootProperty(shadowMode)
                          ELSE cachedRoot
         /\ settlePending' = settlePending + 1

\* The init script runs: hook installed, listeners and timers registered; when
\* the document is not loading any more the initializer is called at once.
RunInjectedScript(loading) ==
    /\ ~injected
    /\ injected' = TRUE
    /\ pendingTriggers' = {"load", "timer1000", "timer2000"}
                            \cup (IF loading THEN {"DOMContentLoaded"} ELSE {})
    /\ IF loading
       THEN UNCHANGED << extractionInitialized, initRuns, cachedRoot, settlePending >>
       ELSE InitSmartFrameExtraction
    /\ UNCHANGED << posted, winQueue, embedInDom, shadowMode, dom, nextCanvasId,
                    markers, requests, foreignDelivered, pyVars >>

\* DOMContentLoaded precedes load; a timer with a smaller delay set earlier
\* runs first.
TriggerMayFire(t) ==
    /\ t \in pendingTriggers
    /\ t = "load" => "DOMContentLoaded" \notin pendingTriggers
    /\ t = "timer2000" => "timer1000" \notin pendingTriggers

\* one of the registered triggers fires and calls initSmartFrameExtraction
FireTrigger(t) ==
    /\ injected
    /\ TriggerMayFire(t)
    /\ pendingTriggers' = pendingTriggers \ {t}
    /\ InitSmartFrameExtraction
    /\ UNCHANGED << injected, posted, winQueue, embedInDom, shadowMode, dom,
                    nextCanvasId, markers, requests, foreignDelivered, pyVars >>

\* The 3000 ms settle timer fires: window.postMessage({type: 'GET_CANVAS_DATA'}).
\* It was set after the 1000 ms and 2000 ms timers, with a larger delay.
SettleTimerFires ==
    /\ settlePending > 0
    /\ pendingTriggers \cap {"timer1000", "timer2000"} = {}
    /\ settlePending' = settlePending - 1
    /\ posted' = posted + 1
    /\ winQueue' = Append(winQueue, SelfGet)
    /\ UNCHANGED << injected, pendingTriggers, extractionInitialized, initRuns,
                    embedInDom, cachedRoot, shadowMode, dom, nextCanvasId, markers,
                    requests, foreignDelivered, pyVars >>

-----------------------------------------------------------------------------
(* Content relay.                                                          *)

\* the 'message' listener of the content script, applied to one event
RelayListener(ev) ==
    /\ requests' = IF RelayAccepts(ev) THEN Append(requests, NewRequest(ev)) ELSE requests
    /\ UNCHANGED markers

\* the message the initializer posted is delivered to the listener
RelayOnMessage ==
    /\ winQueue # << >>
    /\ winQueue' = Tail(winQueue)
    /\ RelayListener(Head(winQueue))
    /\ UNCHANGED << injected, pendingTriggers, extractionInitialized, initRuns,
                    settlePending, posted, embedInDom, cachedRoot, shadowMode, dom,
                    nextCanvasId, foreignDelivered, pyVars >>

\* a message event of another sender is delivered to the listener
RelayOnForeignMessage(ev) ==
    /\ injected
    /\ foreignDelivered < MaxForeign
    /\ foreignDelivered' = foreignDelivered + 1
    /\ RelayListener(ev)
    /\ UNCHANGED << injected, pendingTriggers, extractionInitialized, initRuns,
                    settlePending, posted, winQueue, embedInDom, cachedRoot, shadowMode,
                    dom, nextCanvasId, pyVars >>

UnchangedByRequest ==
    UNCHANGED << injected, pendingTriggers, extractionInitialized, initRuns,
                 settlePending, posted, winQueue, embedInDom, cachedRoot, shadowMode,
                 dom, nextCanvasId, foreignDelivered, pyVars >>

\* chrome.runtime.sendMessage rejects (no receiving end): the catch-callback
SendMessageRejects(i) ==
    /\ requests[i].phase = "sent"
    /\ requests' = [requests EXCEPT ![i].phase = "rejected"]
    /\ UNCHANGED markers
    /\ UnchangedByRequest

\* chrome.runtime.sendMessage resolves with undefined (no listener answered)
SendMessageUnanswered(i) ==
    /\ requests[i].phase = "sent"
    /\ requests' = [requests EXCEPT ![i].phase = "replied"]
    /\ UNCHANGED markers
    /\ UnchangedByRequest

\* .then(response => ...): build the marker element and append it to the body
RelayThen(i) ==
    /\ requests[i].phase = "replied"
    /\ markers' = Append(markers, [attrs |-> MarkerForResponse(requests[i].reply),
                                    req |-> i])
    /\ requests' = [requests EXCEPT ![i].phase = "closed"]
    /\ UnchangedByRequest

\* .catch(error => ...): append a marker element that carries data-error
RelayCatch(i) ==
    /\ requests[i].phase = "rejected"
    /\ markers' = Append(markers, [attrs |-> MarkerForFailure, req |-> i])
    /\ requests' = [requests EXCEPT ![i].phase = "closed"]
    /\ UnchangedByRequest

-----------------------------------------------------------------------------
(* Privileged bridge (service worker) and the func it runs in the page.    *)

\* sendResponse(value)
SendResponse(r, value) ==
    [r EXCEPT !.phase = "replied", !.reply = value, !.replies = @ + 1]

\* The onMessage listener: request.action is "getCanvasDataURL", so
\* chrome.scripting.executeScript is called and the listener returns true.
BridgeOnMessage(i) ==
    /\ requests[i].phase = "sent"
    /\ requests' = [requests EXCEPT ![i].phase = "exec"]
    /\ UNCHANGED markers
    /\ UnchangedByRequest

\* executeScript rejects: .catch(error => sendResponse({error: error.toString()}))
\* (mutant) a rejected executeScript is not answered
OnExecuteScriptRejected_NoReply(r) == [r EXCEPT !.phase = "unanswered"]

OnExecuteScriptRejected(r) == SendResponse(r, ErrorResult("Error: script"))

ExecuteScriptCatch(i) ==
    /\ requests[i].phase = "exec"
    /\ requests' = [requests EXCEPT ![i] = OnExecuteScriptRejected(@)]
    /\ UNCHANGED markers
    /\ UnchangedByRequest

\* (mutant) one attempt too many
MayRetry_OffByOne(attempts) == attempts <= maxAttempts

\* what tryFind does after its search: resolve(canvas), setTimeout(tryFind) or
\* resolve(null)
MayRetry(attempts) == attempts < maxAttempts

\* (mutant) the retry is scheduled before the search result is looked at
TryFind_AlwaysSchedules(r) ==
    LET n == r.attempts + 1
        c == TryFindCanvas(cachedRoot, ShadowRootProperty(shadowMode), dom)
    IN  IF c # NoCanvas
        THEN [r EXCEPT !.attempts = n, !.phase = "resolved", !.canvas = c.id,
                       !.timers = @ + 1]
        ELSE IF MayRetry(n)
        THEN [r EXCEPT !.attempts = n, !.phase = "waiting", !.timers = @ + 1]
        ELSE [r EXCEPT !.attempts = n, !.phase = "resolved", !.canvas = 0]

\* one run of tryFind: attempts++, the search, then resolve(canvas),
\* setTimeout(tryFind, delay) or resolve(null)
TryFind(r) ==
    LET n == r.attempts + 1
        c == TryFindCanvas(cachedRoot, ShadowRootProperty(shadowMode), dom)
    IN  IF c # NoCanvas
        THEN [r EXCEPT !.attempts = n, !.phase = "resolved", !.canvas = c.id]
        ELSE IF MayRetry(n)
        THEN [r EXCEPT !.attempts = n, !.phase = "waiting", !.timers = @ + 1]
        ELSE [r EXCEPT !.attempts = n, !.phase = "resolved", !.canvas = 0]

\* The injected func starts in the page: resolve the embed element, return an
\* error when there is none, else findCanvas() with its first tryFind().
ScriptFunc(i) ==
    /\ requests[i].phase = "exec"
    /\ requests' = [requests EXCEPT ![i] =
          IF embedInDom # "present"
          THEN [@ EXCEPT !.phase = "returned",
                         !.result = ErrorResult("smartframe-embed element not found")]
          ELSE TryFind(@)]
    /\ UNCHANGED markers
    /\ UnchangedByRequest

\* setTimeout(tryFind, delay) fires
TryFindTimer(i) ==
    /\ requests[i].phase = "waiting"
    /\ requests[i].timers > 0
    /\ requests' = [requests EXCEPT ![i] = TryFind([@ EXCEPT !.timers = @ - 1])]
    /\ UNCHANGED markers
    /\ UnchangedByRequest

\* findCanvas().then(canvas => ...): no canvas, or the export through a fresh
\* canvas' toDataURL, which may throw
FindCanvasThen(i, throws) ==
    /\ requests[i].phase = "resolved"
    /\ requests[i].canvas = 0 => ~throws
    /\ requests' = [requests EXCEPT ![i].phase = "returned", ![i].result =
          IF requests[i].canvas = 0
          THEN ErrorResult("Canvas element not found after all retry attempts")
          ELSE IF throws
          THEN ErrorResult("Error calling toDataURL: ")
          ELSE DataUrlResult(requests[i].canvas)]
    /\ UNCHANGED markers
    /\ UnchangedByRequest

\* (mutant) no fallback for a missing result
ResultOrError_NoFallback(result) == result

\* executeScript(...).then(results => sendResponse(result || {error: ...}));
\* delivered is false when results[0].result is missing
ResultOrError(result) ==
    IF result.defined THEN result ELSE ErrorResult("No result from script execution")

ExecuteScriptThen(i, delivered) ==
    /\ requests[i].phase = "returned"
    /\ requests' = [requests EXCEPT ![i] =
          SendResponse(@, ResultOrError(IF delivered THEN @.result ELSE Undefined))]
    /\ UNCHANGED markers
    /\ UnchangedByRequest

-----------------------------------------------------------------------------
(* The capture protocol of one page load.                                  *)

Environment ==
    \/ EmbedAppears
    \/ EmbedRemoved
    \/ \E e \in Elements, mode \in {"open", "closed"}, matches \in BOOLEAN :
          AttachShadow(e, mode, matches)
    \/ \E loc \in Locations, stage \in BOOLEAN, dims \in BOOLEAN :
          RenderCanvas(loc, stage, dims)

Initializer ==
    \/ \E loading \in BOOLEAN : RunInjectedScript(loading)
    \/ \E t \in {"DOMContentLoaded", "load", "timer1000", "timer2000"} : FireTrigger(t)
    \/ SettleTimerFires

Relay ==
    \/ RelayOnMessage
    \/ \E ev \in ForeignEvents : RelayOnForeignMessage(ev)
    \/ \E i \in 1..Len(requests) : SendMessageRejects(i)
    \/ \E i \in 1..Len(requests) : SendMessageUnanswered(i)
    \/ \E i \in 1..Len(requests) : RelayThen(i)
    \/ \E i \in 1..Len(requests) : RelayCatch(i)

Bridge ==
    \/ \E i \in 1..Len(requests) : BridgeOnMessage(i)
    \/ \E i \in 1..Len(requests) : ExecuteScriptCatch(i)
    \/ \E i \in 1..Len(requests) : ScriptFunc(i)
    \/ \E i \in 1..Len(requests) : TryFindTimer(i)
    \/ \E i \in 1..Len(requests), throws \in BOOLEAN : FindCanvasThen(i, throws)
    \/ \E i \in 1..Len(requests), delivered \in BOOLEAN : ExecuteScriptThen(i, delivered)

Next == Environment \/ Initializer \/ Relay \/ Bridge

Init == InitPage /\ MetaIdle /\ TagIdle /\ BatchIdle /\ CallIdle

Spec == Init /\ [][Next]_vars

-----------------------------------------------------------------------------
(* The two halves of Spec, split where the relay creates the request.      *)

\* The page half: initializer and relay listener, up to the request.
PageNext ==
    \/ EmbedAppears
    \/ EmbedRemoved
    \/ \E e \in Elements, mode \in {"open", "closed"}, matches \in BOOLEAN :
          AttachShadow(e, mode, matches)
    \/ Initializer
    \/ RelayOnMessage
    \/ \E ev \in ForeignEvents : RelayOnForeignMessage(ev)

PageSpec == Init /\ [][PageNext]_vars

\* The capture half starts in the state RelayOnMessage leaves when it accepts
\* the initializer's message: the initializer ran once, all triggers fired, the
\* request is on its way to the service worker.  Shadow roots attach and
\* canvases render from here on; a closed root attached before the hook was
\* installed is the one shadow root the slot may have missed.
RequestCreated ==
    /\ injected = TRUE
    /\ pendingTriggers = {}
    /\ extractionInitialized = TRUE
    /\ initRuns = 1
    /\ settlePending = 0
    /\ posted = 1
    /\ winQueue = << >>
    /\ embedInDom = "present"
    /\ cachedRoot = "none"
    /\ shadowMode \in [Elements -> {"no", "closed"}]
    /\ shadowMode["e2"] = "no"
    /\ dom = [l \in Locations |-> << >>]
    /\ nextCanvasId = 1
    /\ markers = << >>
    /\ requests = << NewRequest(SelfGet) >>
    /\ foreignDelivered = 0

RequestStep(i) ==
    \/ SendMessageRejects(i)
    \/ SendMessageUnanswered(i)
    \/ RelayThen(i)
    \/ RelayCatch(i)
    \/ BridgeOnMessage(i)
    \/ ExecuteScriptCatch(i)
    \/ ScriptFunc(i)
    \/ TryFindTimer(i)
    \/ \E throws \in BOOLEAN : FindCanvasThen(i, throws)
    \/ \E delivered \in BOOLEAN : ExecuteScriptThen(i, delivered)

CaptureNext ==
    \/ EmbedRemoved
    \/ \E e \in Elements, mode \in {"open", "closed"}, matches \in BOOLEAN :
          AttachShadow(e, mode, matches)
    \/ \E loc \in Locations, stage \in BOOLEAN, dims \in BOOLEAN :
          RenderCanvas(loc, stage, dims)
    \/ \E i \in 1..Len(requests) : RequestStep(i)

CaptureInit == RequestCreated /\ MetaIdle /\ TagIdle /\ BatchIdle /\ CallIdle

CaptureSpec == CaptureInit /\ [][CaptureNext]_vars

\* Every callback and timer that is due runs: the event loops of the page and
\* of the service worker do not starve a ready task.
LiveCaptureSpec == CaptureSpec /\ WF_vars(\E i \in 1..Len(requests) : RequestStep(i))

-----------------------------------------------------------------------------
(* Text: a Python str as a sequence of tokens.                             *)

SP == " "
NL == "\n"
NBSP == "nbsp"
COMMA == ","

\* characters str.strip() and str.split() treat as whitespace
Whitespace == {SP, NL, NBSP}

\* the value None of a field, told apart from the empty string << >>
None == << "<None>" >>

\* bool(value): None and '' are false
Truthy(v) == v # None /\ v # << >>

\* a or b
OrElse(a, b) == IF Truthy(a) THEN a ELSE b

RECURSIVE LStrip(_)
LStrip(t) == IF t # << >> /\ Head(t) \in Whitespace THEN LStrip(Tail(t)) ELSE t

RECURSIVE RStrip(_)
RStrip(t) ==
    IF t # << >> /\ t[Len(t)] \in Whitespace THEN RStrip(SubSeq(t, 1, Len(t) - 1)) ELSE t

\* str.strip()
Strip(t) == RStrip(LStrip(t))

\* str.replace(old, new) for single tokens
RECURSIVE ReplaceToken(_, _, _)
ReplaceToken(t, old, new) ==
    IF t = << >> THEN << >>
    ELSE << IF Head(t) = old THEN new ELSE Head(t) >> \o ReplaceToken(Tail(t), old, new)

\* str.replace(f" {marker}", f"\n{marker}")
\* mutation of ReplaceSpaceBefore: markers are left where they stand
ReplaceSpaceBefore_Unchanged(t, marker) == t

RECURSIVE ReplaceSpaceBefore(_, _)
ReplaceSpaceBefore(t, marker) ==
    IF t = << >> THEN << >>
    ELSE << IF Head(t) = SP /\ Len(t) > 1 /\ t[2] = marker THEN NL ELSE Head(t) >>
         \o ReplaceSpaceBefore(Tail(t), marker)

\* str.replace(marker, "")
Remove(t, marker) == SelectSeq(t, LAMBDA x : x # marker)

\* str.startswith(marker)
StartsWith(t, marker) == t # << >> /\ t[1] = marker

\* marker in line
HasToken(t, marker) == \E k \in 1..Len(t) : t[k] = marker

\* needle in hay (substring)
Contains(hay, needle) ==
    \E k \in 0..(Len(hay) - Len(needle)) : SubSeq(hay, k + 1, k + Len(needle)) = needle

\* str.split(sep): the parts between the separators, empty parts included
RECURSIVE SplitAt(_, _, _)
SplitAt(t, seps, current) ==
    IF t = << >> THEN << current >>
    ELSE IF Head(t) \in seps THEN << current >> \o SplitAt(Tail(t), seps, << >>)
    ELSE SplitAt(Tail(t), seps, Append(current, Head(t)))

Split(t, sep) == SplitAt(t, {sep}, << >>)

\* str.splitlines(): no line for the empty text or after a final line break
SplitLines(t) ==
    LET parts == Split(t, NL)
    IN  IF parts[Len(parts)] = << >> THEN SubSeq(parts, 1, Len(parts) - 1) ELSE parts

\* str.split(): the runs of non-whitespace
Words(t) == SelectSeq(SplitAt(t, Whitespace, << >>), LAMBDA w : w # << >>)

\* sep.join(parts)
RECURSIVE Join(_, _)
Join(parts, sep) ==
    IF parts = << >> THEN << >>
    ELSE IF Len(parts) = 1 THEN parts[1]
    ELSE parts[1] \o sep \o Join(Tail(parts), sep)

\* line.split(marker)[-1]: the text after the last occurrence of marker
AfterLast(t, marker) ==
    LET last == CHOOSE k \in 1..Len(t) :
                    t[k] = marker /\ \A j \in (k + 1)..Len(t) : t[j] # marker
    IN  SubSeq(t, last + 1, Len(t))


-----------------------------------------------------------------------------
(* extract_smartframe_metadata.                                            *)

\* (mutant) the record carries the derived tags as a fourteenth field
EmptyMetadata_WithTags ==
    [ caption |-> None, date |-> None, credit |-> None, image_id |-> None,
      image_size |-> None, provider |-> None, location |-> None, city |-> None,
      country |-> None, photographer |-> None, featuring |-> None, title |-> None,
      subject |-> None, tags |-> None ]

\* metadata = {...}
EmptyMetadata ==
    [ caption |-> None, date |-> None, credit |-> None, image_id |-> None,
      image_size |-> None, provider |-> None, location |-> None, city |-> None,
      country |-> None, photographer |-> None, featuring |-> None, title |-> None,
      subject |-> None ]

Fields == DOMAIN EmptyMetadata

\* markers = ("Featuring:", "Where:", "When:", "Credit:", ...)
DetailMarkers ==
    << "Featuring:", "Where:", "When:", "Credit:", "SmartFrame image ID:", "Image size:" >>

\* every token that holds a colon: the six markers and the fallback's three
ColonTokens ==
    { DetailMarkers[k] : k \in 1..Len(DetailMarkers) } \cup {"Photographer:", "Country:", "City:"}

\* text before the colon of a token, lower-cased
Lower(token) ==
    CASE token = "Featuring:" -> "featuring"
      [] token = "Where:" -> "where"
      [] token = "When:" -> "when"
      [] token = "Credit:" -> "credit"
      [] token = "SmartFrame image ID:" -> "smartframe image id"
      [] token = "Image size:" -> "image size"
      [] token = "Photographer:" -> "photographer"
      [] token = "Country:" -> "country"
      [] token = "City:" -> "city"
      [] token = "SmartFrame" -> "smartframe"
      [] OTHER -> token

\* [part.strip() for part in location_value.split(",") if part.strip()]
WhereParts(value) ==
    LET parts == Split(value, COMMA)
        stripped == [k \in 1..Len(parts) |-> Strip(parts[k])]
    IN  SelectSeq(stripped, LAMBDA part : part # << >>)

\* text_content() of the provider or caption heading, stripped; None when the
\* locator yields nothing or fails
HeadingText(text) ==
    IF Truthy(text) /\ Strip(text) # << >> THEN Strip(text) ELSE None

\* the normalisation of the details paragraph, one marker after the other
RECURSIVE ForceMarkerLines(_, _)
ForceMarkerLines(t, k) ==
    IF k > Len(DetailMarkers) THEN t
    ELSE ForceMarkerLines(ReplaceSpaceBefore(t, DetailMarkers[k]), k + 1)

NormalizedLines(details) == SplitLines(ForceMarkerLines(ReplaceToken(details, NBSP, SP), 1))

LineStartsWithMarker(line) == \E k \in 1..Len(DetailMarkers) : StartsWith(line, DetailMarkers[k])

\* the if/elif chain of the details loop for one stripped line
StructuredMarkerLine(md, line) ==
    IF StartsWith(line, "When:") /\ ~Truthy(md.date)
    THEN [md EXCEPT !.date = Strip(Remove(line, "When:"))]
    ELSE IF StartsWith(line, "Credit:") /\ ~Truthy(md.credit)
    THEN [md EXCEPT !.credit = Strip(Remove(line, "Credit:"))]
    ELSE IF StartsWith(line, "Featuring:") /\ ~Truthy(md.featuring)
    THEN [md EXCEPT !.featuring = Strip(Remove(line, "Featuring:"))]
    ELSE IF StartsWith(line, "Where:") /\ ~Truthy(md.location)
    THEN LET value == Strip(Remove(line, "Where:"))
             parts == WhereParts(value)
             located == [md EXCEPT !.location = value]
         IN  IF (~Truthy(md.city) \/ ~Truthy(md.country)) /\ parts # << >>
             THEN IF Len(parts) = 1
                  THEN [located EXCEPT !.city = OrElse(md.city, parts[1])]
                  ELSE [located EXCEPT !.city = OrElse(md.city, parts[1]),
                                       !.country = OrElse(md.country, parts[Len(parts)])]
             ELSE located
    ELSE IF StartsWith(line, "SmartFrame image ID:") /\ ~Truthy(md.image_id)
    THEN [md EXCEPT !.image_id = Strip(Remove(line, "SmartFrame image ID:"))]
    ELSE IF StartsWith(line, "Image size:") /\ ~Truthy(md.image_size)
    THEN [md EXCEPT !.image_size = Strip(Remove(line, "Image size:"))]
    ELSE md

\* the loop over the lines of the details paragraph; st holds the record, the
\* preface lines and metadata_section_started
RECURSIVE DetailLines(_, _)
DetailLines(lines, st) ==
    IF lines = << >> THEN st
    ELSE LET line == Strip(Head(lines))
             rest == Tail(lines)
         IN  IF line = << >> THEN DetailLines(rest, st)
             ELSE IF ~st.started /\ ~LineStartsWithMarker(line)
             THEN DetailLines(rest, [st EXCEPT !.preface = Append(@, line)])
             ELSE DetailLines(rest,
                    [st EXCEPT !.started = @ \/ LineStartsWithMarker(line),
                               !.md = StructuredMarkerLine(@, line)])

PrefaceSeparator == << SP, "|", SP >>

\* mutation of PrefaceIsNew: the preface is put in front every time
PrefaceIsNew_Always(prefaceText, caption) == TRUE

\* whether the preface is put in front of the caption heading
PrefaceIsNew(prefaceText, caption) == ~Contains(caption, prefaceText)

\* (mutant) the preface never touches a caption the heading supplied
MergePreface_KeepsHeading(md, preface) ==
    IF preface = << >> THEN md
    ELSE LET prefaceText == Join(preface, PrefaceSeparator)
         IN  [md EXCEPT !.caption = OrElse(md.caption, prefaceText),
                        !.title = OrElse(md.title, prefaceText),
                        !.subject = OrElse(md.subject, prefaceText)]

\* if preface_lines: caption, title and subject
MergePreface(md, preface) ==
    IF preface = << >> THEN md
    ELSE LET prefaceText == Join(preface, PrefaceSeparator)
             captioned ==
                IF Truthy(md.caption)
                THEN IF PrefaceIsNew(prefaceText, md.caption)
                     THEN [md EXCEPT !.caption = prefaceText \o PrefaceSeparator \o md.caption]
                     ELSE md
                ELSE [md EXCEPT !.caption = prefaceText]
         IN  [captioned EXCEPT !.title = OrElse(md.title, prefaceText),
                               !.subject = OrElse(md.subject, prefaceText)]

\* the details paragraph step
DetailsParagraph(md, details) ==
    IF ~Truthy(details) THEN md
    ELSE LET st == DetailLines(NormalizedLines(details),
                               [md |-> md, preface |-> << >>, started |-> FALSE])
         IN  MergePreface(st.md, st.preface)

\* one list item "label: value"
ListItem(md, item) ==
    IF ~Truthy(item) \/ Strip(item) = << >> THEN md
    ELSE LET normalized == Join(Words(Strip(item)), << SP >>)
         IN  IF ~\E k \in 1..Len(normalized) : normalized[k] \in ColonTokens THEN md
             ELSE LET colon == CHOOSE k \in 1..Len(normalized) :
                                  /\ normalized[k] \in ColonTokens
                                  /\ \A j \in 1..(k - 1) : normalized[j] \notin ColonTokens
                      label == IF colon = 1 THEN Lower(normalized[1]) ELSE "(other)"
                      value == Strip(SubSeq(normalized, colon + 1, Len(normalized)))
                  IN  IF label = "smartframe image id" /\ ~Truthy(md.image_id)
                      THEN [md EXCEPT !.image_id = value]
                      ELSE IF label = "image size" /\ ~Truthy(md.image_size)
                      THEN [md EXCEPT !.image_size = value]
                      ELSE IF label = "credit" /\ ~Truthy(md.credit)
                      THEN [md EXCEPT !.credit = value]
                      ELSE IF label = "photographer" /\ ~Truthy(md.photographer)
                      THEN [md EXCEPT !.photographer = value]
                      ELSE IF label = "country" /\ ~Truthy(md.country)
                      THEN [md EXCEPT !.country = value]
                      ELSE IF label = "city" /\ ~Truthy(md.city)
                      THEN [md EXCEPT !.city = value]
                      ELSE md

RECURSIVE ListItems(_, _)
ListItems(md, items) ==
    IF items = << >> THEN md ELSE ListItems(ListItem(md, Head(items)), Tail(items))

\* the steps of the structured pass that follow the container test, in the
\* order of the code
StructuredSteps == << "provider", "caption", "details", "list" >>

\* (mutant) the steps are guarded by the try statement around the whole pass
\* only
InnerTry_OuterOnly(step) == FALSE

\* the step stands in a try statement of its own, inside the one around the
\* whole structured pass
InnerTry(step) == step \in { "provider", "caption", "details", "list" }

\* what one step that does not raise makes of the record
StepResult(pg, md, step) ==
    CASE step = "provider" ->
            IF HeadingText(pg.h2) # None THEN [md EXCEPT !.provider = HeadingText(pg.h2)]
            ELSE md
      [] step = "caption" ->
            IF HeadingText(pg.h1) # None THEN [md EXCEPT !.caption = HeadingText(pg.h1)]
            ELSE md
      [] step = "details" -> DetailsParagraph(md, pg.p)
      [] step = "list" -> ListItems(md, pg.items)

\* the steps from the k-th on: a step that raises is skipped when its own
\* except clause catches the exception, and ends the pass when only the outer
\* except clause does
RECURSIVE RunSteps(_, _, _, _)
RunSteps(pg, md, steps, k) ==
    IF k > Len(steps) THEN md
    ELSE IF steps[k] \in pg.raises
    THEN IF InnerTry(steps[k]) THEN RunSteps(pg, md, steps, k + 1) ELSE md
    ELSE LET after == StepResult(pg, md, steps[k])
         IN  RunSteps(pg, after, steps, k + 1)

\* (mutant) the list items are scanned before the details paragraph is read
StructuredRun_ListFirst(pg, md) ==
    IF ~pg.container \/ "container" \in pg.raises THEN md
    ELSE RunSteps(pg, md, << "provider", "caption", "list", "details" >>, 1)

\* The structured pass on record md: provider heading, caption heading,
\* details paragraph, list items; nothing without the container, or when
\* looking for the container raises.
StructuredRun(pg, md) ==
    IF ~pg.container \/ "container" \in pg.raises THEN md
    ELSE RunSteps(pg, md, StructuredSteps, 1)

\* MIN_CAPTION_LENGTH
MIN_CAPTION_LENGTH == 3

\* the words of the modelled pages
ShortWords == {"Ann", "UK"}
LongWords == {"Paris", "Getty"}

\* len() of one token
TokenLen(token) ==
    CASE token \in {SP, NL, NBSP, COMMA, "|"} -> 1
      [] token = "UK" -> 2
      [] token = "Ann" -> 3
      [] token \in LongWords -> 5
      [] token = "When:" -> 5
      [] token = "City:" -> 5
      [] token = "Where:" -> 6
      [] token = "Credit:" -> 7
      [] token = "Country:" -> 8
      [] token = "Featuring:" -> 10
      [] token = "Image size:" -> 11
      [] token = "Photographer:" -> 13
      [] token = "SmartFrame image ID:" -> 20

\* len(text)
RECURSIVE TextLen(_)
TextLen(t) == IF t = << >> THEN 0 ELSE TokenLen(Head(t)) + TextLen(Tail(t))

\* mutation of FallbackMissing: the fallback writes whatever it finds
FallbackMissing_Always(md, field) == TRUE

\* the "not metadata[field]" guard of every fallback branch
FallbackMissing(md, field) == ~Truthy(md[field])

\* missing_fields
MissingFields(md) ==
    { key \in {"provider", "caption", "date", "credit", "image_id", "image_size"} :
        ~Truthy(md[key]) }

\* the if/elif chain of the fallback loop for one stripped line
FallbackLine(md, line) ==
    IF FallbackMissing(md, "date") /\ StartsWith(line, "When:")
    THEN [md EXCEPT !.date = Strip(Remove(line, "When:"))]
    ELSE IF FallbackMissing(md, "credit") /\ StartsWith(line, "Credit:")
    THEN [md EXCEPT !.credit = Strip(Remove(line, "Credit:"))]
    ELSE IF FallbackMissing(md, "featuring") /\ StartsWith(line, "Featuring:")
    THEN [md EXCEPT !.featuring = Strip(Remove(line, "Featuring:"))]
    ELSE IF FallbackMissing(md, "location") /\ StartsWith(line, "Where:")
    THEN LET value == Strip(Remove(line, "Where:"))
             parts == WhereParts(value)
             located == [md EXCEPT !.location = value]
         IN  IF parts = << >> THEN located
             ELSE IF Len(parts) = 1 /\ FallbackMissing(md, "city")
             THEN [located EXCEPT !.city = parts[1]]
             ELSE [located EXCEPT
                     !.city = IF FallbackMissing(md, "city") THEN parts[1] ELSE @,
                     !.country = IF FallbackMissing(md, "country") THEN parts[Len(parts)] ELSE @]
    ELSE IF FallbackMissing(md, "image_id") /\ HasToken(line, "SmartFrame image ID:")
    THEN [md EXCEPT !.image_id = Strip(AfterLast(line, "SmartFrame image ID:"))]
    ELSE IF FallbackMissing(md, "image_size") /\ HasToken(line, "Image size:")
    THEN [md EXCEPT !.image_size = Strip(AfterLast(line, "Image size:"))]
    ELSE IF FallbackMissing(md, "photographer") /\ StartsWith(line, "Photographer:")
    THEN [md EXCEPT !.photographer = Strip(Remove(line, "Photographer:"))]
    ELSE IF FallbackMissing(md, "country") /\ StartsWith(line, "Country:")
    THEN [md EXCEPT !.country = Strip(Remove(line, "Country:"))]
    ELSE IF FallbackMissing(md, "city") /\ StartsWith(line, "City:")
    THEN [md EXCEPT !.city = Strip(Remove(line, "City:"))]
    ELSE md

RECURSIVE FallbackLines(_, _)
FallbackLines(md, lines) ==
    IF lines = << >> THEN md
    ELSE LET line == Strip(Head(lines))
         IN  FallbackLines(IF line = << >> THEN md ELSE FallbackLine(md, line), Tail(lines))

\* potential_caption passes the test of the caption heuristic
IsCaptionCandidate(candidate) ==
    /\ candidate # << >>
    /\ ~StartsWith(candidate, "When:")
    /\ ~StartsWith(candidate, "Credit:")
    /\ TextLen(candidate) > MIN_CAPTION_LENGTH

\* the line after the first provider line that is followed by a candidate
FallbackCaption(md, lines) ==
    LET hits == { i \in 1..(Len(lines) - 1) :
                    Strip(lines[i]) = md.provider /\ IsCaptionCandidate(Strip(lines[i + 1])) }
    IN  IF FallbackMissing(md, "caption") /\ Truthy(md.provider) /\ hits # {}
        THEN [md EXCEPT !.caption =
                Strip(lines[(CHOOSE i \in hits : \A j \in hits : i <= j) + 1])]
        ELSE md

\* title and subject default to the caption
FallbackTitleSubject(md) ==
    IF Truthy(md.caption)
    THEN [md EXCEPT !.title = IF FallbackMissing(md, "title") THEN md.caption ELSE @,
                    !.subject = IF FallbackMissing(md, "subject") THEN md.caption ELSE @]
    ELSE md

\* The fallback pass over the text of the body; when inner_text raises, the
\* except clause of the pass swallows the exception and the record stays as
\* it is.
FallbackRun(pg, md) ==
    IF MissingFields(md) = {} \/ "body" \in pg.raises THEN md
    ELSE LET lines == Split(pg.body, NL)
         IN  FallbackTitleSubject(FallbackCaption(FallbackLines(md, lines), lines))

-----------------------------------------------------------------------------
(* The pages extract_smartframe_metadata is run on.                        *)

\* bound: sentences of the details paragraph plus lines of the body text
MaxLines == 3

\* sentences the details paragraph is made of
Sentences ==
    { << "Ann" >>,
      << "Paris", SP, "UK" >>,
      << "When:" >>,
      << "When:", NBSP, "Ann" >>,
      << "Where:", SP, "Paris", COMMA, SP, "UK" >>,
      << "Where:", SP, "Ann" >>,
      << "Credit:", SP, "Getty" >>,
      << "Featuring:", SP, "Ann" >>,
      << "SmartFrame image ID:", SP, "Ann" >>,
      << "Image size:", SP, "UK" >> }

\* lines of the body text
BodyLines ==
    { << "Getty" >>,
      << "Ann" >>,
      << SP, "Paris", SP, "UK", SP >>,
      << "When:", SP, "UK" >>,
      << "Credit:" >>,
      << "Featuring:", SP, "Paris" >>,
      << "Where:", SP, "Ann", COMMA, "Paris" >>,
      << "UK", SP, "SmartFrame image ID:", SP, "Paris" >>,
      << "Image size:", SP, "Ann" >>,
      << "Photographer:", SP, "Ann" >>,
      << "Country:", SP, "Paris" >>,
      << "City:", SP, "Paris" >> }

\* lines of the body text of a page without the container, where the body
\* text is the only source: a "Where:" value with one non-empty part as well
PlainBodyLines == BodyLines \cup { << "Where:", SP, "UK", COMMA >> }

\* text_content() of the h2 and h1 headings; None when the locator finds none
ProviderHeadings == { None, << "Getty" >> }
CaptionHeadings == { None, << SP, "Ann", SP >> }

\* all_text_contents() of the list items
ItemLists ==
    { << >>,
      << << "Credit:" >> >>,
      << << "City:", NL, SP, "Ann" >>, << "Country:", SP, "UK" >>,
         << "Photographer:", SP, "Getty" >>, << "UK", SP, "Image size:", "UK" >>,
         << "SmartFrame image ID:", "Ann" >> >> }

\* a page: the URL test, the container test, the texts of the locators and
\* the steps whose page call raises (none unless stated)
MakePage(smartframe, container, h2, h1, sentences, sep, items, lines) ==
    [ smartframe |-> smartframe, container |-> container, h2 |-> h2, h1 |-> h1,
      p |-> IF sentences = << >> THEN None ELSE Join(sentences, << sep >>),
      items |-> items,
      body |-> Join(lines, << NL >>),
      raises |-> {} ]

\* how many sentences and how many body lines a page has
LineCounts == { c \in (0..MaxLines) \X (0..MaxLines) : c[1] + c[2] <= MaxLines }

\* The pages: without the container only the body text matters, and off
\* smartframe.com nothing does.
IsPage(pg) ==
    \E smartframe \in BOOLEAN, container \in BOOLEAN, c \in LineCounts :
        \E h2 \in ProviderHeadings, h1 \in CaptionHeadings,
           sentences \in [1..c[1] -> Sentences], sep \in {SP, NL},
           items \in ItemLists,
           lines \in [1..c[2] -> IF container THEN BodyLines ELSE PlainBodyLines] :
            /\ container => smartframe
            /\ ~container => h2 = None /\ h1 = None /\ c[1] = 0 /\ items = << >>
            /\ ~smartframe => c[2] = 0
            /\ c[1] < 2 => sep = SP
            /\ pg = MakePage(smartframe, container, h2, h1, sentences, sep, items, lines)

\* metadata = {...}; if "smartframe.com" not in page_url: return metadata
SkipNonSmartFrame ==
    /\ mpc = "start"
    /\ ~page.smartframe
    /\ metadata' = EmptyMetadata
    /\ afterStructured' = EmptyMetadata
    /\ mpc' = "done"
    /\ UNCHANGED << page, jsVars, tagVars, batchVars, callVars >>

\* the structured extraction, up to the fallback comment
StructuredPass ==
    /\ mpc = "start"
    /\ page.smartframe
    /\ metadata' = StructuredRun(page, EmptyMetadata)
    /\ afterStructured' = metadata'
    /\ mpc' = "structured"
    /\ UNCHANGED << page, jsVars, tagVars, batchVars, callVars >>

\* the fallback extraction and the return
FallbackPass ==
    /\ mpc = "structured"
    /\ metadata' = FallbackRun(page, metadata)
    /\ mpc' = "done"
    /\ UNCHANGED << page, afterStructured, jsVars, tagVars, batchVars, callVars >>

MetaNext == SkipNonSmartFrame \/ StructuredPass \/ FallbackPass

\* the call of extract_smartframe_metadata on some page
MetaInit ==
    /\ InitPage
    /\ embedInDom = "absent"
    /\ mpc = "start"
    /\ IsPage(page)
    /\ metadata = << >>
    /\ afterStructured = << >>
    /\ TagIdle
    /\ BatchIdle
    /\ CallIdle

SpecMeta == MetaInit /\ [][MetaNext]_vars

\* the call of extract_smartframe_metadata on a page that has the container;
\* the body text is left empty
StructuredInit ==
    /\ InitPage
    /\ embedInDom = "absent"
    /\ mpc = "start"
    /\ \E count \in 0..MaxLines, h2 \in ProviderHeadings, h1 \in CaptionHeadings,
          items \in ItemLists, sep \in {SP, NL} :
          \E sentences \in [1..count -> Sentences] :
              /\ count < 2 => sep = SP
              /\ page = MakePage(TRUE, TRUE, h2, h1, sentences, sep, items, << >>)
    /\ metadata = << >>
    /\ afterStructured = << >>
    /\ TagIdle
    /\ BatchIdle
    /\ CallIdle

\* the structured pass alone
SpecStructured == StructuredInit /\ [][StructuredPass]_vars

\* the page calls of extract_smartframe_metadata that may raise
Steps == { "container", "provider", "caption", "details", "list", "body" }

\* which calls raise on a page: none, one, or all of them
RaiseSets == { {} } \cup { { step } : step \in Steps } \cup { Steps }

\* how many sentences and body lines a page with raising calls has
FailCounts == { c \in LineCounts : c[1] + c[2] < MaxLines }

\* the call of extract_smartframe_metadata on a page some of whose calls raise
FailInit ==
    /\ InitPage
    /\ embedInDom = "absent"
    /\ mpc = "start"
    /\ \E smartframe \in BOOLEAN, container \in BOOLEAN, c \in FailCounts,
          raises \in RaiseSets :
          \E h2 \in ProviderHeadings, h1 \in CaptionHeadings, items \in ItemLists,
             sep \in {SP, NL}, sentences \in [1..c[1] -> Sentences],
             lines \in [1..c[2] -> BodyLines] :
              /\ container => smartframe
              /\ ~container => h2 = None /\ h1 = None /\ c[1] = 0 /\ items = << >>
              /\ ~smartframe => c[2] = 0 /\ raises = {}
              /\ c[1] < 2 => sep = SP
              /\ page = [MakePage(smartframe, container, h2, h1, sentences, sep, items, lines)
                           EXCEPT !.raises = raises]
    /\ metadata = << >>
    /\ afterStructured = << >>
    /\ TagIdle
    /\ BatchIdle
    /\ CallIdle

SpecFailures == FailInit /\ [][MetaNext]_vars

-----------------------------------------------------------------------------
(* write_metadata_to_image: the Tag-Namespace Mapper.                      *)

\* mutation of FieldIsSet: every mapping is emitted
FieldIsSet_Always(md, field) == TRUE

\* metadata.get(field) as a condition
FieldIsSet(md, field) == Truthy(md[field])

\* any(metadata.values())
AnyValue(md) == { f \in Fields : Truthy(md[f]) } # {}

\* the arguments f'-{tag}={value}' for the tags of one source
Assignments(tags, value, from) ==
    [k \in 1..Len(tags) |-> [tag |-> tags[k], value |-> value, from |-> from]]

\* if metadata.get(field): command.extend([...])
MapField(md, field, tags) ==
    IF FieldIsSet(md, field) THEN Assignments(tags, md[field], {field}) ELSE << >>

\* Optional[Dict]: no element for None, one element for a dictionary
NoComponents == << >>

\* date_parser.parse(date_str, fuzzy=True) and the strftime formats;
\* NoComponents for an empty string and when the parser raises
ParseDateComponents(date) ==
    IF date = << "2021-05-01" >>
    THEN << [ exif_datetime |-> << "2021:05:01 00:00:00" >>,
              iptc_date |-> << "2021:05:01" >>,
              iptc_time |-> << "00:00:00+00:00" >>,
              xmp_datetime |-> << "2021-05-01T00:00:00Z" >> ] >>
    ELSE NoComponents

\* the date mapping writes parsed components only
MapDate_ParsedOnly(md) ==
    IF FieldIsSet(md, "date") /\ ParseDateComponents(md.date) # NoComponents
    THEN Assignments(<< "IPTC:DateCreated" >>, ParseDateComponents(md.date)[1].iptc_date, {"date"})
    ELSE << >>

\* the date mapping: parsed components, or the cleaned raw text
MapDate(md) ==
    IF ~FieldIsSet(md, "date") THEN << >>
    ELSE LET parsed == ParseDateComponents(md.date)
             cleaned == Strip(md.date)
         IN  IF parsed # NoComponents
             THEN Assignments(<< "EXIF:DateTimeOriginal", "EXIF:CreateDate",
                                 "EXIF:DateTimeDigitized" >>, parsed[1].exif_datetime, {"date"})
                  \o Assignments(<< "IPTC:DateCreated" >>, parsed[1].iptc_date, {"date"})
                  \o Assignments(<< "IPTC:TimeCreated" >>, parsed[1].iptc_time, {"date"})
                  \o Assignments(<< "XMP:DateCreated", "XMP:DateTimeOriginal", "XMP:CreateDate",
                                    "XMP:MetadataDate", "XMP:ModifyDate" >>,
                                 parsed[1].xmp_datetime, {"date"})
             ELSE IF cleaned # << >>
             THEN Assignments(<< "IPTC:DateCreated", "XMP:DateCreated" >>, cleaned, {"date"})
             ELSE << >>

\* re.split(r',| and ', text)
RECURSIVE SplitNames(_, _)
SplitNames(t, current) ==
    IF t = << >> THEN << current >>
    ELSE IF Head(t) = COMMA THEN << current >> \o SplitNames(Tail(t), << >>)
    ELSE IF Len(t) >= 3 /\ SubSeq(t, 1, 3) = << SP, "and", SP >>
    THEN << current >> \o SplitNames(SubSeq(t, 4, Len(t)), << >>)
    ELSE SplitNames(Tail(t), Append(current, Head(t)))

\* the people of the featuring field, one XMP:PersonInImage+= each
MapFeaturing(md) ==
    IF ~FieldIsSet(md, "featuring") THEN << >>
    ELSE LET names == SplitNames(md.featuring, << >>)
             stripped == SelectSeq([k \in 1..Len(names) |-> Strip(names[k])],
                                   LAMBDA name : name # << >>)
             participants == IF stripped = << >> THEN << Strip(md.featuring) >> ELSE stripped
         IN  [k \in 1..Len(participants) |->
                [tag |-> "XMP:PersonInImage+", value |-> participants[k], from |-> {"featuring"}]]

\* one part "Label: value" of the comment
CommentPart(label, value, from) == << [text |-> << label, SP >> \o value, from |-> from] >>

\* comments_parts
CommentsParts(md) ==
    LET locationComponents ==
            (IF FieldIsSet(md, "city") THEN << md.city >> ELSE << >>)
            \o (IF FieldIsSet(md, "country") THEN << md.country >> ELSE << >>)
        locationFrom ==
            (IF FieldIsSet(md, "city") THEN {"city"} ELSE {})
            \cup (IF FieldIsSet(md, "country") THEN {"country"} ELSE {})
    IN  (IF FieldIsSet(md, "caption") THEN CommentPart("Caption:", md.caption, {"caption"}) ELSE << >>)
        \o (IF FieldIsSet(md, "date") THEN CommentPart("Date:", md.date, {"date"}) ELSE << >>)
        \o (IF FieldIsSet(md, "credit") THEN CommentPart("Credit:", md.credit, {"credit"}) ELSE << >>)
        \o (IF FieldIsSet(md, "photographer") /\ md.photographer # md.credit
            THEN CommentPart("Photographer:", md.photographer, {"photographer"}) ELSE << >>)
        \o (IF FieldIsSet(md, "image_id")
            THEN CommentPart("Image ID:", md.image_id, {"image_id"}) ELSE << >>)
        \o (IF FieldIsSet(md, "provider")
            THEN CommentPart("Provider:", md.provider, {"provider"}) ELSE << >>)
        \o (IF locationComponents # << >>
            THEN CommentPart("Location:", Join(locationComponents, << COMMA, SP >>), locationFrom)
            ELSE IF FieldIsSet(md, "location")
            THEN CommentPart("Location:", md.location, {"location"}) ELSE << >>)
        \o (IF FieldIsSet(md, "featuring")
            THEN CommentPart("Featuring:", md.featuring, {"featuring"}) ELSE << >>)
        \o (IF FieldIsSet(md, "subject") /\ md.subject # md.caption
            THEN CommentPart("Subject:", md.subject, {"subject"}) ELSE << >>)
        \o (IF FieldIsSet(md, "title") /\ md.title # md.caption /\ md.title # md.subject
            THEN CommentPart("Title:", md.title, {"title"}) ELSE << >>)

\* the two UserComment assignments
MapComments(md) ==
    LET parts == CommentsParts(md)
    IN  IF parts = << >> THEN << >>
        ELSE Assignments(<< "EXIF:UserComment", "XMP:UserComment" >>,
                         Join([k \in 1..Len(parts) |-> parts[k].text], PrefaceSeparator),
                         UNION { parts[k].from : k \in 1..Len(parts) })

\* the assignments of the command, between 'exiftool -overwrite_original'
\* and the image path
BuildCommand(md) ==
    MapField(md, "caption", << "IPTC:Caption-Abstract", "XMP:Description",
                               "EXIF:ImageDescription" >>)
    \o MapField(md, "title", << "IPTC:ObjectName", "IPTC:Headline", "XMP:Title",
                                "XMP-photoshop:Headline", "EXIF:XPTitle" >>)
    \o MapField(md, "subject", << "XMP:Subject", "IPTC:Keywords" >>)
    \o MapField(md, "credit", << "IPTC:Credit", "IPTC:By-line", "XMP:Credit", "EXIF:Artist",
                                 "XMP:Creator" >>)
    \o MapField(md, "provider", << "IPTC:Source", "XMP:Source" >>)
    \o MapDate(md)
    \o MapField(md, "city", << "IPTC:City", "XMP-photoshop:City" >>)
    \o MapField(md, "country", << "IPTC:Country-PrimaryLocationName",
                                  "XMP-photoshop:Country" >>)
    \o MapField(md, "location", << "IPTC:Sub-location", "XMP-photoshop:Location" >>)
    \o MapField(md, "photographer", << "XMP:Contributor" >>)
    \o MapFeaturing(md)
    \o MapField(md, "image_id", << "XMP:Identifier", "IPTC:OriginalTransmissionReference" >>)
    \o MapComments(md)

\* the records write_metadata_to_image is called with: unset, empty and set
\* fields, equal and different captions, titles and subjects
TagRecords ==
    [ caption : { None, << >>, << "Ann" >> },
      title : { None, << "Ann" >>, << "Paris" >> },
      subject : { None, << "Ann" >>, << "UK" >> },
      credit : { None, << >>, << "Getty" >> },
      photographer : { None, << "Getty" >>, << "Ann" >> },
      provider : { None, << "Getty" >> },
      date : { None, << >>, << "2021-05-01" >>, << "Ann" >>, << SP >> },
      location : { None, << "Paris", COMMA, SP, "UK" >> },
      city : { None, << "Paris" >> },
      country : { None, << "UK" >> },
      featuring : { None, << "Ann", SP, "and", SP, "Paris", COMMA, "UK" >>, << COMMA >> },
      image_id : { None, << "Ann" >> },
      image_size : { None, << "UK" >> } ]

\* what executing the command does: exit status 0, CalledProcessError,
\* FileNotFoundError, any other exception
ToolOutcomes == { "ok", "nonzero", "notfound", "error" }

\* mutation of ToolReturn: a failure of the tool is not caught
ToolReturn_Uncaught(outcome) == IF outcome = "ok" THEN "True" ELSE "raise"

\* the return value the try/except around the tool gives for each outcome
ToolReturn(outcome) == IF outcome = "ok" THEN "True" ELSE "False"

\* if not metadata or not any(metadata.values()): return True
WriteMetadataSkipped ==
    /\ tpc = "start"
    /\ ~AnyValue(metadata)
    /\ written' = "True"
    /\ tpc' = "done"
    /\ UNCHANGED << command, toolRuns, jsVars, metaVars, batchVars, callVars >>

\* the command is built and executed; every exception is turned into False
WriteMetadataToImage(outcome) ==
    /\ tpc = "start"
    /\ AnyValue(metadata)
    /\ command' = BuildCommand(metadata)
    /\ toolRuns' = toolRuns + 1
    /\ written' = ToolReturn(outcome)
    /\ tpc' = "done"
    /\ UNCHANGED << jsVars, metaVars, batchVars, callVars >>

TagNext == WriteMetadataSkipped \/ \E outcome \in ToolOutcomes : WriteMetadataToImage(outcome)

\* the call of write_metadata_to_image on some record
TagInit ==
    /\ InitPage
    /\ embedInDom = "absent"
    /\ mpc = "idle"
    /\ page = << >>
    /\ afterStructured = << >>
    /\ metadata \in TagRecords
    /\ tpc = "start"
    /\ command = << >>
    /\ toolRuns = 0
    /\ written = "none"
    /\ BatchIdle
    /\ CallIdle

SpecTags == TagInit /\ [][TagNext]_vars

-----------------------------------------------------------------------------
(* run_main_script and process_url: one browser session per URL.           *)

\* bound: URLs in urls.txt
MaxUrls == 2

\* what matters of a URL: urlparse raises ValueError on it, its host is
\* smartframe.com, or it is the URL of another site
UrlKinds == { "unparseable", "smartframe", "other" }

\* page_result at the start of process_url
NewPageResult(url) ==
    [ OriginalURL |-> url, Status |-> "Failed", OutputFilename |-> "N/A",
      ErrorMessage |-> << >> ]

\* what process_url did for one URL (history)
NewHistory ==
    [ launches |-> 0, navigations |-> 0, waits |-> 0, closes |-> 0, files |-> {},
      failedSteps |-> {}, timedOut |-> FALSE, found |-> NoMarker, exception |-> "none",
      raised |-> FALSE ]

\* the marker elements the wait can find: those the relay builds, the data
\* URL of a canvas without pixels, and an element of that id with both
\* attributes (the selector asks for either attribute, not for one alone)
BatchMarkers ==
    { MarkerForResponse(DataUrlResult(1)),
      MarkerForResponse(ErrorResult("Canvas element not found after all retry attempts")),
      MarkerForResponse(Undefined),
      MarkerForFailure,
      [dataUrl |-> Attr("data:,"), dataError |-> NoAttr, canvas |-> 1],
      [dataUrl |-> Attr("data:image/png;base64,"), dataError |-> Attr("Tainted canvas"),
       canvas |-> 1] }

\* get_attribute: None for a missing attribute
GetAttribute(attr) == IF attr.present THEN << attr.value >> ELSE None

\* mutation of UnrecoverableMessage: the handler records no message
UnrecoverableMessage_Empty(url, exception) == << >>

\* the message of the outer except clause
UnrecoverableMessage(url, exception) ==
    << "An unrecoverable error occurred during the main execution for URL", url.id, exception >>

\* mutation of AfterFinally: the context is closed on the success path only
AfterFinally_SuccessOnly(open, failed) == IF failed THEN open ELSE open - 1

\* finally: await browser_context.close()
AfterFinally(open, failed) == open - 1

\* mutation of ExtensionReportedError: data-error is not looked at
ExtensionReportedError_Ignored(errorFromExtension) == FALSE

\* if error_from_extension:
ExtensionReportedError(errorFromExtension) == Truthy(errorFromExtension)

\* mutation of IsPngDataUrl: any data URL is taken for an image
IsPngDataUrl_AnyUrl(imageDataUrl) == Truthy(imageDataUrl)

\* image_data_url and image_data_url.startswith("data:image/png;base64,")
IsPngDataUrl(imageDataUrl) ==
    Truthy(imageDataUrl) /\ imageDataUrl = << "data:image/png;base64," >>

\* the for loop hands the next URL to process_url and appends its result
ReturnResult(result) ==
    /\ allResults' = Append(allResults, result)
    /\ urlIndex' = urlIndex + 1
    /\ upc' = "next"
    /\ pageResult' = NoPageResult
    /\ responseMarker' = NoMarker
    /\ smartframeMetadata' = FALSE

\* what await browser_context.close() does in the finally clause.  One
\* failure per session: close() raises in sessions where nothing else has
\* raised and every step has returned True.
CloseOutcomes == { "ok", "raise" }

\* an exception inside the session: finally closes the context, the outer
\* except records the message, process_url returns
FailInSession(exception, change) ==
    /\ openContexts' = AfterFinally(openContexts, TRUE)
    /\ history' = [history EXCEPT ![urlIndex] =
                     [change EXCEPT !.closes = @ + (openContexts - openContexts'),
                                    !.exception = exception]]
    /\ ReturnResult([pageResult EXCEPT
                       !.ErrorMessage = UnrecoverableMessage(urls[urlIndex], exception)])

\* process_url up to the launch of the browser context.  urlparse is called
\* before the try statement: its ValueError leaves process_url and the for
\* loop, and run_main_script re-raises it.
EnterProcessUrl(outcome) ==
    /\ batch = "running"
    /\ upc = "next"
    /\ urlIndex <= Len(urls)
    /\ IF urls[urlIndex].kind = "unparseable"
       THEN /\ batch' = "aborted"
            /\ upc' = "idle"
            /\ history' = Append(history, [NewHistory EXCEPT !.raised = TRUE,
                                                             !.exception = "ValueError"])
            /\ UNCHANGED << urlIndex, allResults, openContexts, responseMarker,
                            smartframeMetadata, pageResult >>
       ELSE IF outcome = "ok"
       THEN /\ openContexts' = openContexts + 1
            /\ history' = Append(history, [NewHistory EXCEPT !.launches = 1])
            /\ pageResult' = NewPageResult(urls[urlIndex])
            /\ upc' = "navigate"
            /\ UNCHANGED << urlIndex, allResults, batch, responseMarker, smartframeMetadata >>
       ELSE /\ history' = Append(history, [NewHistory EXCEPT !.launches = 1,
                                                             !.exception = "launch"])
            /\ ReturnResult([NewPageResult(urls[urlIndex]) EXCEPT
                               !.ErrorMessage = UnrecoverableMessage(urls[urlIndex], "launch")])
            /\ UNCHANGED << batch, openContexts >>
    /\ UNCHANGED << urls, jsVars, metaVars, tagVars, callVars >>

\* add_init_script, new_page, page.goto, extract_smartframe_metadata
Navigate(outcome, found) ==
    /\ upc = "navigate"
    /\ (found => urls[urlIndex].kind = "smartframe" /\ outcome = "ok")
    /\ LET visited == [history[urlIndex] EXCEPT !.navigations = @ + 1]
       IN  IF outcome = "ok"
           THEN /\ smartframeMetadata' = found
                /\ history' = [history EXCEPT ![urlIndex] = visited]
                /\ upc' = "wait"
                /\ UNCHANGED << urlIndex, allResults, openContexts, responseMarker, pageResult >>
           ELSE FailInSession("goto", visited)
    /\ UNCHANGED << urls, batch, jsVars, metaVars, tagVars, callVars >>

\* page.wait_for_selector: a marker element, or TimeoutError after 120000 ms
\* when there is none
WaitForSelector(found) ==
    /\ upc = "wait"
    /\ LET waited == [history[urlIndex] EXCEPT !.waits = @ + 1, !.found = found]
       IN  IF found # NoMarker
           THEN /\ responseMarker' = found
                /\ history' = [history EXCEPT ![urlIndex] = waited]
                /\ upc' = "collect"
                /\ UNCHANGED << urlIndex, allResults, openContexts, smartframeMetadata,
                                pageResult >>
           ELSE FailInSession("TimeoutError", [waited EXCEPT !.timedOut = TRUE])
    /\ UNCHANGED << urls, batch, jsVars, metaVars, tagVars, callVars >>

\* a branch that ends without an exception: finally closes the context and
\* process_url returns page_result; when close() raises, the outer except
\* clause writes its message into the page_result the branch has updated
CloseAndReturn(result, change, close) ==
    /\ openContexts' = AfterFinally(openContexts, FALSE)
    /\ history' = [history EXCEPT ![urlIndex] =
                     [change EXCEPT !.closes = @ + (openContexts - openContexts'),
                                    !.exception = IF close = "raise" THEN "close"
                                                  ELSE "none"]]
    /\ ReturnResult(IF close = "raise"
                    THEN [result EXCEPT !.ErrorMessage =
                            UnrecoverableMessage(urls[urlIndex], "close")]
                    ELSE result)

\* the steps after the image file is written, each with the value its
\* function returns; steps that are skipped count as "True"
StepReturns(convert, download, transfer, save, tag) ==
    [ convert_png_to_jpg |-> ToolReturn(convert),
      download_thumbnail |-> IF download = "nourl" THEN "True" ELSE ToolReturn(download),
      transfer_metadata_with_exiftool |-> ToolReturn(transfer),
      save_metadata_to_file |-> ToolReturn(save),
      write_metadata_to_image |-> ToolReturn(tag) ]

\* the steps that do not apply take their first outcome
StepsApply(kind, found, download, transfer, save, tag) ==
    /\ kind = "smartframe" => download = "nourl"
    /\ download # "ok" => transfer = "ok"
    /\ ~found => save = "ok" /\ tag = "ok"

\* close() raises in sessions whose steps have returned True
OneFailure(returns, close) ==
    close = "raise" => \A step \in DOMAIN returns : returns[step] = "True"

\* from the marker element to the return of process_url
Collect(read, write, convert, download, transfer, save, tag, close) ==
    /\ upc = "collect"
    /\ LET url == urls[urlIndex]
           done == history[urlIndex]
           imageDataUrl == GetAttribute(responseMarker.dataUrl)
           errorFromExtension == GetAttribute(responseMarker.dataError)
           returns == StepReturns(convert, download, transfer, save, tag)
           steps == DOMAIN returns
           saved == [done EXCEPT
                       !.files = {"png"} \cup (IF returns.convert_png_to_jpg = "True"
                                               THEN {"jpg"} ELSE {}),
                       !.failedSteps = { step \in steps : returns[step] = "False" }]
           plain == write = "ok" /\ convert = "ok" /\ download = "nourl" /\ transfer = "ok"
                    /\ save = "ok" /\ tag = "ok"
       IN  IF read = "raise"
           THEN plain /\ close = "ok" /\ FailInSession("get_attribute", done)
           ELSE IF ExtensionReportedError(errorFromExtension)
           THEN /\ plain
                /\ CloseAndReturn([pageResult EXCEPT !.ErrorMessage =
                      << "Extension reported error:" >> \o errorFromExtension], done, close)
           ELSE IF IsPngDataUrl(imageDataUrl)
           THEN IF write = "raise"
                THEN /\ convert = "ok" /\ download = "nourl" /\ transfer = "ok"
                     /\ save = "ok" /\ tag = "ok"
                     /\ close = "ok"
                     /\ FailInSession("open", done)
                ELSE /\ StepsApply(url.kind, smartframeMetadata, download, transfer, save, tag)
                     /\ OneFailure(returns, close)
                     /\ IF { step \in steps : returns[step] = "raise" } # {}
                        THEN FailInSession("step", saved)
                        ELSE CloseAndReturn(
                               [pageResult EXCEPT
                                  !.Status = "Success",
                                  !.OutputFilename = IF "jpg" \in saved.files
                                                     THEN "jpg" ELSE "png",
                                  !.ErrorMessage = << "N/A" >>], saved, close)
           ELSE /\ plain
                /\ CloseAndReturn([pageResult EXCEPT !.ErrorMessage =
                      << "No valid image data URL received from extension." >>], done, close)
    /\ UNCHANGED << urls, batch, jsVars, metaVars, tagVars, callVars >>

\* the for loop ends; the summary and the report are written
FinishBatch ==
    /\ batch = "running"
    /\ upc = "next"
    /\ urlIndex > Len(urls)
    /\ batch' = "done"
    /\ upc' = "idle"
    /\ UNCHANGED << urls, urlIndex, allResults, openContexts, responseMarker,
                    smartframeMetadata, pageResult, history, jsVars, metaVars, tagVars, callVars >>

BatchNext ==
    \/ \E outcome \in {"ok", "raise"} : EnterProcessUrl(outcome)
    \/ \E outcome \in {"ok", "raise"}, found \in BOOLEAN : Navigate(outcome, found)
    \/ \E found \in BatchMarkers \cup {NoMarker} : WaitForSelector(found)
    \/ /\ upc = "collect"
       /\ \E read \in {"ok", "raise"}, write \in {"ok", "raise"}, convert \in {"ok", "error"},
             download \in {"nourl", "ok", "error"}, transfer \in ToolOutcomes,
             save \in {"ok", "error"}, tag \in ToolOutcomes, close \in CloseOutcomes :
               Collect(read, write, convert, download, transfer, save, tag, close)
    \/ FinishBatch

\* run_main_script at the head of its for loop, with the URLs of urls.txt
BatchInit ==
    /\ InitPage
    /\ embedInDom = "absent"
    /\ MetaIdle
    /\ TagIdle
    /\ \E n \in 1..MaxUrls : \E kinds \in [1..n -> UrlKinds] :
          urls = [i \in 1..n |-> [id |-> i, kind |-> kinds[i]]]
    /\ urlIndex = 1
    /\ upc = "next"
    /\ batch = "running"
    /\ allResults = << >>
    /\ openContexts = 0
    /\ responseMarker = NoMarker
    /\ smartframeMetadata = FALSE
    /\ pageResult = NoPageResult
    /\ history = << >>
    /\ CallIdle

SpecBatch == BatchInit /\ [][BatchNext]_vars

-----------------------------------------------------------------------------
(* One process_url call together with the page it loads: the marker wait   *)
(* finds what the relay has appended to the body of that page.             *)

\* what the selector '#extension-response-data[data-url],
\* #extension-response-data[data-error]' finds in the page
PageMarker == IF markers = << >> THEN NoMarker ELSE markers[1].attrs

\* the 120000 ms of the wait have elapsed: the init script has run and its
\* timers of 1000, 2000 and 3000 ms have fired
WaitExpired ==
    /\ injected
    /\ pendingTriggers = {}
    /\ settlePending = 0

\* page.wait_for_selector on the loaded page
MarkerWait ==
    /\ PageMarker = NoMarker => WaitExpired
    /\ WaitForSelector(PageMarker)

\* the page and the relay while process_url waits; the service worker is
\* left out: a request is rejected or stays unanswered
SessionPage ==
    /\ upc = "wait"
    /\ \/ EmbedAppears
       \/ EmbedRemoved
       \/ Initializer
       \/ RelayOnMessage
       \/ \E ev \in ForeignEvents : RelayOnForeignMessage(ev)
       \/ \E i \in 1..Len(requests) : SendMessageRejects(i)
       \/ \E i \in 1..Len(requests) : SendMessageUnanswered(i)
       \/ \E i \in 1..Len(requests) : RelayThen(i)
       \/ \E i \in 1..Len(requests) : RelayCatch(i)

SessionNext ==
    \/ \E outcome \in {"ok", "raise"} : EnterProcessUrl(outcome)
    \/ \E outcome \in {"ok", "raise"}, found \in BOOLEAN : Navigate(outcome, found)
    \/ SessionPage
    \/ MarkerWait
    \/ /\ upc = "collect"
       /\ \E read \in {"ok", "raise"}, write \in {"ok", "raise"}, convert \in {"ok", "error"},
             download \in {"nourl", "ok", "error"}, transfer \in ToolOutcomes,
             save \in {"ok", "error"}, tag \in ToolOutcomes, close \in CloseOutcomes :
               Collect(read, write, convert, download, transfer, save, tag, close)
    \/ FinishBatch

\* run_main_script with one URL in urls.txt
SessionInit ==
    /\ InitPage
    /\ MetaIdle
    /\ TagIdle
    /\ \E kind \in UrlKinds : urls = << [id |-> 1, kind |-> kind] >>
    /\ urlIndex = 1
    /\ upc = "next"
    /\ batch = "running"
    /\ allResults = << >>
    /\ openContexts = 0
    /\ responseMarker = NoMarker
    /\ smartframeMetadata = FALSE
    /\ pageResult = NoPageResult
    /\ history = << >>
    /\ CallIdle

SpecSession == SessionInit /\ [][SessionNext]_vars

\* the wait returns or raises TimeoutError once its time has elapsed (a
\* step of MarkerWait always changes upc)
LiveSessionSpec == SpecSession /\ WF_upc(MarkerWait)

-----------------------------------------------------------------------------
(* Date normalization (_normalize_date of SmartFrameExtractor).  A string  *)
(* is the sequence of its characters.                                      *)

Digits == << "0", "1", "2", "3", "4", "5", "6", "7", "8", "9" >>

IsDigit(c) == \E d \in 1..10 : Digits[d] = c

DigitValue(c) == (CHOOSE d \in 1..10 : Digits[d] = c) - 1

\* a non-empty run of digits
IsNumber(s) == s # << >> /\ \A k \in 1..Len(s) : IsDigit(s[k])

\* int(s)
RECURSIVE ToInt(_)
ToInt(s) ==
    IF s = << >> THEN 0
    ELSE 10 * ToInt(SubSeq(s, 1, Len(s) - 1)) + DigitValue(s[Len(s)])

\* the decimal digits of n, zero-padded to the width
RECURSIVE ZeroPadded(_, _)
ZeroPadded(n, width) ==
    IF width = 0 THEN << >>
    ELSE ZeroPadded(n \div 10, width - 1) \o << Digits[(n % 10) + 1] >>

\* s.split(sep)
RECURSIVE SplitChars(_, _, _)
SplitChars(s, sep, current) ==
    IF s = << >> THEN << current >>
    ELSE IF Head(s) = sep THEN << current >> \o SplitChars(Tail(s), sep, << >>)
    ELSE SplitChars(Tail(s), sep, Append(current, Head(s)))

\* every two-digit year is moved into 20yy
PivotYear_AlwaysThisCentury(yy) == 2000 + yy

\* the 50-year pivot rule for a two-digit year
PivotYear(yy) == IF yy < 50 THEN 2000 + yy ELSE 1900 + yy

\* DD.MM.YY or DD.MM.YYYY
IsDottedDate(s) ==
    LET parts == SplitChars(s, ".", << >>)
    IN  /\ Len(parts) = 3
        /\ \A k \in 1..3 : IsNumber(parts[k])
        /\ Len(parts[1]) = 2
        /\ Len(parts[2]) = 2
        /\ Len(parts[3]) \in {2, 4}

\* what the normalization returns for a string that is no date
Unrecognised(s) == s

\* _normalize_date: None stays None, a dotted date becomes YYYY-MM-DD, any
\* other string is returned as it came
NormalizeDate(s) ==
    IF s = None \/ s = << >> THEN s
    ELSE IF IsDottedDate(s)
    THEN LET parts == SplitChars(s, ".", << >>)
             day == ToInt(parts[1])
             month == ToInt(parts[2])
             year == IF Len(parts[3]) = 2 THEN PivotYear(ToInt(parts[3]))
                     ELSE ToInt(parts[3])
         IN  ZeroPadded(year, 4) \o << "-" >> \o ZeroPadded(month, 2)
             \o << "-" >> \o ZeroPadded(day, 2)
    ELSE Unrecognised(s)

\* the days, months and years the dates are written with
DayTexts == { << "0", "1" >>, << "1", "5" >>, << "2", "5" >>, << "3", "1" >> }

MonthTexts == { << "0", "1" >>, << "1", "1" >>, << "1", "2" >> }

YearTexts ==
    { << "0", "0" >>, << "0", "7" >>, << "4", "9" >>, << "5", "0" >>, << "9", "9" >>,
      << "2", "0", "2", "3" >>, << "1", "9", "5", "0" >>, << "2", "0", "4", "9" >> }

DottedDates ==
    { d \o << "." >> \o m \o << "." >> \o y : d \in DayTexts, m \in MonthTexts, y \in YearTexts }

\* strings that are no dates: "invalid", "15.11", "15-11-07", "1a.11.07", "15.11.7"
NonDates ==
    { << "i", "n", "v", "a", "l", "i", "d" >>,
      << "1", "5", ".", "1", "1" >>,
      << "1", "5", "-", "1", "1", "-", "0", "7" >>,
      << "1", "a", ".", "1", "1", ".", "0", "7" >>,
      << "1", "5", ".", "1", "1", ".", "7" >> }

DateInputs == DottedDates \cup NonDates \cup { None, << >> }

\* "invalid"
InvalidDate == << "i", "n", "v", "a", "l", "i", "d" >>

\* date texts handed to parse_date_components and to the date mapping
ParserInputs == { None, << >>, InvalidDate, << "2021-05-01" >> }

\* extractor._normalize_date(text)
NormalizeDateCall ==
    /\ fname = "_normalize_date"
    /\ fpc = "called"
    /\ fout' = NormalizeDate(fin)
    /\ fpc' = "returned"
    /\ UNCHANGED << fname, fin, jsVars, metaVars, tagVars, batchVars >>

\* parse_date_components(date_str); None is never passed on by the mapper
\* but is accepted by the "if not date_str" test
ParseDateComponentsCall ==
    /\ fname = "parse_date_components"
    /\ fpc = "called"
    /\ fout' = (IF Truthy(fin) THEN ParseDateComponents(fin) ELSE NoComponents)
    /\ fpc' = "returned"
    /\ UNCHANGED << fname, fin, jsVars, metaVars, tagVars, batchVars >>

\* the date part of write_metadata_to_image for a record with this date
DateMappingCall ==
    /\ fname = "write_metadata_to_image"
    /\ fpc = "called"
    /\ fout' = MapDate([EmptyMetadata EXCEPT !.date = fin])
    /\ fpc' = "returned"
    /\ UNCHANGED << fname, fin, jsVars, metaVars, tagVars, batchVars >>

DateInit ==
    /\ InitPage
    /\ embedInDom = "absent"
    /\ MetaIdle
    /\ TagIdle
    /\ BatchIdle
    /\ fpc = "called"
    /\ fout = << >>
    /\ \/ fname = "_normalize_date" /\ fin \in DateInputs
       \/ fname = "parse_date_components" /\ fin \in ParserInputs
       \/ fname = "write_metadata_to_image" /\ fin \in ParserInputs

DateNext ==
    \/ NormalizeDateCall
    \/ ParseDateComponentsCall
    \/ DateMappingCall

SpecDates == DateInit /\ [][DateNext]_vars

-----------------------------------------------------------------------------
(* URL analysis: urlparse and the image id of process_url, and             *)
(* _parse_smartframe_url of SmartFrameExtractor.  A URL is the sequence of *)
(* its parts: scheme, "://", host labels and dots, "/", path segments,     *)
(* "?", query.                                                             *)

\* the longest prefix without a stop
RECURSIVE TakeUntil(_, _)
TakeUntil(t, stops) ==
    IF t = << >> \/ Head(t) \in stops THEN << >>
    ELSE << Head(t) >> \o TakeUntil(Tail(t), stops)

HasAuthority(url) == Len(url) >= 2 /\ url[2] = "://"

\* urlparse(url).netloc
UrlNetloc(url) ==
    IF HasAuthority(url) THEN TakeUntil(SubSeq(url, 3, Len(url)), {"/", "?", "#"})
    ELSE << >>

\* the path keeps the query string
UrlPath_WithQuery(url) ==
    LET start == IF HasAuthority(url) THEN 3 + Len(UrlNetloc(url)) ELSE 1
    IN  SubSeq(url, start, Len(url))

\* urlparse(url).path
UrlPath(url) ==
    LET start == IF HasAuthority(url) THEN 3 + Len(UrlNetloc(url)) ELSE 1
    IN  TakeUntil(SubSeq(url, start, Len(url)), {"?", "#"})

\* netloc.lower()
RECURSIVE LowerAll(_)
LowerAll(t) == IF t = << >> THEN << >> ELSE << Lower(Head(t)) >> \o LowerAll(Tail(t))

\* netloc_lower == 'smartframe.com' or netloc_lower.endswith('.smartframe.com')
IsSmartframeUrl(url) ==
    LET netloc_lower == LowerAll(UrlNetloc(url))
        n == Len(netloc_lower)
    IN  \/ netloc_lower = << "smartframe", ".", "com" >>
        \/ /\ n >= 4
           /\ SubSeq(netloc_lower, n - 3, n) = << ".", "smartframe", ".", "com" >>

\* [segment for segment in path.split('/') if segment]
PathSegments(url) == SelectSeq(Split(UrlPath(url), "/"), LAMBDA segment : segment # << >>)

\* smartframe_target_image_id of process_url
TargetImageId(url) ==
    IF IsSmartframeUrl(url) /\ PathSegments(url) # << >>
    THEN PathSegments(url)[Len(PathSegments(url))]
    ELSE None

\* the hash and the image id of /search/image/<hash>/<image_id>
ParsedParts(segments) == segments[3] \o segments[4]

\* _parse_smartframe_url: hash and image_id of a SmartFrame image URL, None
\* for any other URL
ParseSmartframeUrl(url) ==
    LET segments == PathSegments(url)
    IN  IF /\ IsSmartframeUrl(url)
           /\ Len(segments) = 4
           /\ segments[1] = << "search" >>
           /\ segments[2] = << "image" >>
        THEN ParsedParts(segments)
        ELSE None

\* hosts, paths and query strings the URLs are written with
Hosts ==
    { << "smartframe", ".", "com" >>, << "www", ".", "smartframe", ".", "com" >>,
      << "SmartFrame", ".", "com" >>, << "example", ".", "com" >>,
      << "notsmartframe", ".", "com" >> }

Hashes == { "abc123", "xyz789" }

ImageIds == { "image456", "img999" }

ImagePath(hash, image_id) == << "/", "search", "/", "image", "/", hash, "/", image_id >>

OtherPaths ==
    { << >>, << "/" >>, << "/", "not-a-smartframe-url" >>,
      << "/", "search", "/", "image", "/", "abc123" >> }

Queries == { << >>, << "?", "param=value" >>, << "?", "next=", "/", "a", "/", "b" >> }

MakeUrl(host, path, query) == << "https", "://" >> \o host \o path \o query

IsUrl(url) ==
    \E host \in Hosts, query \in Queries :
        \/ \E hash \in Hashes, image_id \in ImageIds, slash \in { << >>, << "/" >> } :
              url = MakeUrl(host, ImagePath(hash, image_id) \o slash, query)
        \/ \E path \in OtherPaths : url = MakeUrl(host, path, query)

\* extractor._parse_smartframe_url(url)
ParseSmartframeUrlCall ==
    /\ fname = "_parse_smartframe_url"
    /\ fpc = "called"
    /\ fout' = ParseSmartframeUrl(fin)
    /\ fpc' = "returned"
    /\ UNCHANGED << fname, fin, jsVars, metaVars, tagVars, batchVars >>

\* the URL analysis at the head of process_url
TargetImageIdCall ==
    /\ fname = "process_url"
    /\ fpc = "called"
    /\ fout' = TargetImageId(fin)
    /\ fpc' = "returned"
    /\ UNCHANGED << fname, fin, jsVars, metaVars, tagVars, batchVars >>

\* the characters "smartframe.com" occur in the text of three parts: the
\* first ends with "smartframe", the second is ".", the third begins with
\* "com"; the test tells upper case from lower case
EndsWithSmartframe(part) == part \in { "smartframe", "notsmartframe" }

BeginsWithCom(part) == part \in { "com" }

\* "smartframe.com" in page_url
ContainsSmartframeCom(url) ==
    \E k \in 1..(Len(url) - 2) :
        /\ EndsWithSmartframe(url[k])
        /\ url[k + 1] = "."
        /\ BeginsWithCom(url[k + 2])

\* the two tests process_url applies to one URL: its own of the host, and
\* that of extract_smartframe_metadata, which it calls with the same URL
SmartframeChecksCall ==
    /\ fname = "extract_smartframe_metadata"
    /\ fpc = "called"
    /\ fout' = << IF IsSmartframeUrl(fin) THEN "smartframe" ELSE "other",
                  IF ContainsSmartframeCom(fin) THEN "attempted" ELSE "skipped" >>
    /\ fpc' = "returned"
    /\ UNCHANGED << fname, fin, jsVars, metaVars, tagVars, batchVars >>

UrlInit ==
    /\ InitPage
    /\ embedInDom = "absent"
    /\ MetaIdle
    /\ TagIdle
    /\ BatchIdle
    /\ fpc = "called"
    /\ fout = << >>
    /\ fname \in { "_parse_smartframe_url", "process_url", "extract_smartframe_metadata" }
    /\ IsUrl(fin)

UrlNext ==
    \/ ParseSmartframeUrlCall
    \/ TargetImageIdCall
    \/ SmartframeChecksCall

SpecUrls == UrlInit /\ [][UrlNext]_vars

-----------------------------------------------------------------------------
(* The initializer on a page of two elements, e1 before e2 in document     *)
(* order: the attachShadow hook, resolveSmartFrameElement, the forced box  *)
(* and the order of the initializer's steps.                               *)

\* selectors, by what they test
NoSelector == [kind |-> "null", id |-> ""]

TagSelector == [kind |-> "tag", id |-> ""]

NotThumbnailSelector == [kind |-> "notThumbnail", id |-> ""]

\* an image id that closes the attribute string makes the selector invalid
BadImageId == "bad\"id"

\* f'smartframe-embed[image-id="{potential_image_id}"]'
ImageIdSelector(id) == [kind |-> IF id = BadImageId THEN "invalid" ELSE "imageId", id |-> id]

\* querySelector and matches throw a SyntaxError for an invalid selector
SelectorThrows(sel) == sel.kind = "invalid"

\* element.matches(sel) for a valid selector
SelectorMatches(el, sel) ==
    /\ el.tag = "smartframe-embed"
    /\ sel.kind = "notThumbnail" => ~el.thumbnail
    /\ sel.kind = "imageId" => el.imageId = sel.id

\* document.querySelector(sel): the first element in document order, "null"
\* when none matches
DocumentQuerySelector(elements, sel) ==
    IF SelectorMatches(elements["e1"], sel) THEN "e1"
    ELSE IF SelectorMatches(elements["e2"], sel) THEN "e2"
    ELSE "null"

\* the two globals process_url sets before the init script runs
InitSelectorScript(isSmartframe, imageId) ==
    IF ~isSmartframe THEN [selector |-> TagSelector, imageId |-> "null"]
    ELSE IF imageId = "null" THEN [selector |-> NotThumbnailSelector, imageId |-> "null"]
    ELSE [selector |-> ImageIdSelector(imageId), imageId |-> imageId]

\* (mutant) the hook captures every shadow root of a smartframe-embed
HookShouldCapture_Always(el, targetSelector, targetImageId, slot) == TRUE

\* shouldCapture of the attachShadow hook
HookShouldCapture(el, targetSelector, targetImageId, slot) ==
    LET matchesImageId == targetImageId # "null" /\ el.imageId = targetImageId
        matchesSelector == targetSelector # NoSelector /\ SelectorMatches(el, targetSelector)
    IN  matchesImageId \/ matchesSelector \/ slot = "none"

\* window.__smartFrameShadowRoot after the hooked attachShadow ran on el; the
\* call throws out of this.matches when the target selector is invalid
HookedSlot(e, el, targetSelector, targetImageId, slot) ==
    IF el.tag # "smartframe-embed" THEN slot
    ELSE IF targetSelector # NoSelector /\ SelectorThrows(targetSelector) THEN slot
    ELSE IF HookShouldCapture(el, targetSelector, targetImageId, slot) THEN RootOf(e)
    ELSE slot

\* selectorsToTry of resolveSmartFrameElement
SelectorsToTry(smartframeEmbedSelector, smartframeTargetImageId) ==
    LET first == IF smartframeTargetImageId # "null"
                 THEN << ImageIdSelector(smartframeTargetImageId) >> ELSE << >>
        second == IF smartframeEmbedSelector # NoSelector
                     /\ \A k \in 1..Len(first) : first[k] # smartframeEmbedSelector
                  THEN << smartframeEmbedSelector >> ELSE << >>
    IN  first \o second \o << NotThumbnailSelector, TagSelector >>

\* (mutant) a selector that throws ends the search
TrySelectors_StopsOnThrow(elements, selectors, k, fallback) ==
    IF \E j \in 1..Len(selectors) :
          /\ ~SelectorThrows(selectors[j])
          /\ DocumentQuerySelector(elements, selectors[j]) # "null"
          /\ \A i \in 1..(j - 1) :
                /\ ~SelectorThrows(selectors[i])
                /\ DocumentQuerySelector(elements, selectors[i]) = "null"
    THEN LET j == CHOOSE j \in 1..Len(selectors) :
                    /\ ~SelectorThrows(selectors[j])
                    /\ DocumentQuerySelector(elements, selectors[j]) # "null"
                    /\ \A i \in 1..(j - 1) :
                          /\ ~SelectorThrows(selectors[i])
                          /\ DocumentQuerySelector(elements, selectors[i]) = "null"
         IN  [element |-> DocumentQuerySelector(elements, selectors[j]),
              selector |-> selectors[j]]
    ELSE [element |-> "null", selector |-> fallback]

\* the for loop of resolveSmartFrameElement over the selectors from k on
RECURSIVE TrySelectors(_, _, _, _)
TrySelectors(elements, selectors, k, fallback) ==
    IF k > Len(selectors) THEN [element |-> "null", selector |-> fallback]
    ELSE IF SelectorThrows(selectors[k])
    THEN TrySelectors(elements, selectors, k + 1, fallback)
    ELSE IF DocumentQuerySelector(elements, selectors[k]) # "null"
    THEN [element |-> DocumentQuerySelector(elements, selectors[k]),
          selector |-> selectors[k]]
    ELSE TrySelectors(elements, selectors, k + 1, fallback)

\* resolveSmartFrameElement(); the selector global falls back to the bare tag
ResolveSmartFrameElement(pg) ==
    LET smartframeEmbedSelector == IF pg.selector = NoSelector THEN TagSelector
                                   ELSE pg.selector
    IN  TrySelectors(pg.elements, SelectorsToTry(smartframeEmbedSelector, pg.imageId), 1,
                     smartframeEmbedSelector)

\* the fixed fallback size
FallbackBox ==
    [width |-> << "9999", "px" >>, maxWidth |-> << "9999", "px" >>,
     height |-> << "9999", "px" >>, maxHeight |-> << "9999", "px" >>]

\* (mutant) each dimension falls back on its own
ForcedBox_PerDimension(width, height) ==
    LET px(v) == IF v = << >> \/ v \in { << "0" >>, << "0", "px" >> } THEN << "9999", "px" >>
                 ELSE IF v[Len(v)] = "px" THEN v ELSE v \o << "px" >>
    IN  [width |-> px(width), maxWidth |-> px(width),
         height |-> px(height), maxHeight |-> px(height)]

\* the four style properties the initializer sets from the two natural-size
\* properties (a text is the sequence of its number and unit)
ForcedBox(width, height) ==
    IF /\ width # << >> /\ height # << >>
       /\ Strip(width) # << >> /\ Strip(height) # << >>
       /\ width \notin { << "0" >>, << "0", "px" >> }
       /\ height \notin { << "0" >>, << "0", "px" >> }
    THEN LET widthStr == Strip(width)
             heightStr == Strip(height)
             widthValue == IF widthStr[Len(widthStr)] = "px" THEN widthStr
                           ELSE widthStr \o << "px" >>
             heightValue == IF heightStr[Len(heightStr)] = "px" THEN heightStr
                            ELSE heightStr \o << "px" >>
         IN  [width |-> widthValue, maxWidth |-> widthValue,
              height |-> heightValue, maxHeight |-> heightValue]
    ELSE FallbackBox

\* no inline size yet
NoBox == [width |-> << >>, maxWidth |-> << >>, height |-> << >>, maxHeight |-> << >>]

\* the elements a page is built of
NaturalSizes ==
    { << << >>, << >> >>, << << "800" >>, << "600" >> >>,
      << << "800", "px" >>, << "600", "px" >> >>, << << "0" >>, << "600" >> >>,
      << << "800" >>, << "0", "px" >> >>, << << "800" >>, << >> >> }

EmbedElement(imageId, thumbnail, size) ==
    [tag |-> "smartframe-embed", imageId |-> imageId, thumbnail |-> thumbnail,
     natural |-> size, box |-> NoBox]

OtherElement ==
    [tag |-> "div", imageId |-> "img1", thumbnail |-> FALSE,
     natural |-> << << >>, << >> >>, box |-> NoBox]

MakeElement(tag, imageId, thumbnail, size) ==
    IF tag = "smartframe-embed" THEN EmbedElement(imageId, thumbnail, size)
    ELSE OtherElement

\* the globals process_url can set: another site, a SmartFrame URL without
\* path, with the image id img1, with an image id that breaks the selector
TargetSettings ==
    { InitSelectorScript(FALSE, "null"), InitSelectorScript(TRUE, "null"),
      InitSelectorScript(TRUE, "img1"), InitSelectorScript(TRUE, BadImageId) }

\* Element.prototype.attachShadow, hooked, called by the page on element e
HookedAttachShadow(e, mode) ==
    /\ shadowMode[e] = "no"
    /\ shadowMode' = [shadowMode EXCEPT ![e] = mode]
    /\ cachedRoot' = HookedSlot(e, page.elements[e], page.selector, page.imageId, cachedRoot)
    /\ UNCHANGED << injected, pendingTriggers, extractionInitialized, initRuns,
                    settlePending, posted, winQueue, embedInDom, dom, nextCanvasId,
                    markers, requests, foreignDelivered, metaVars, tagVars, batchVars,
                    callVars >>

\* a trigger calls initSmartFrameExtraction: the guard, the resolution, and
\* for a resolved element the flag, the slot, the box, the resize event and
\* the settle timer, in this order
ResolvingInitializer(t) ==
    /\ TriggerMayFire(t)
    /\ pendingTriggers' = pendingTriggers \ {t}
    /\ IF InitGuardReturns(extractionInitialized)
       THEN UNCHANGED << extractionInitialized, initRuns, cachedRoot, settlePending,
                         page, callVars >>
       ELSE LET resolved == ResolveSmartFrameElement(page)
                e == resolved.element
            IN  /\ fname' = "initSmartFrameExtraction"
                /\ fin' = resolved
                /\ IF e = "null"
                   THEN /\ fpc' = "not found"
                        /\ UNCHANGED << extractionInitialized, initRuns, cachedRoot,
                                        settlePending, page, fout >>
                   ELSE /\ fpc' = "returned"
                        /\ extractionInitialized' = TRUE
                        /\ initRuns' = initRuns + 1
                        /\ cachedRoot' = IF cachedRoot = "none" /\ shadowMode[e] = "open"
                                         THEN RootOf(e) ELSE cachedRoot
                        /\ page' = [page EXCEPT !.elements[e].box =
                                      ForcedBox(page.elements[e].natural[1],
                                                page.elements[e].natural[2])]
                        /\ settlePending' = settlePending + 1
                        /\ fout' = << "resolve", "style", "resize", "setTimeout" >>
    /\ UNCHANGED << injected, posted, winQueue, embedInDom, shadowMode, dom, nextCanvasId,
                    markers, requests, foreignDelivered, mpc, metadata, afterStructured,
                    tagVars, batchVars >>

\* (mutant) the message is posted without waiting for the settle timer
SettleDue_AtOnce(pending, triggers) == TRUE

\* a settle timer was set and its 3000 ms have elapsed: the 1000 ms and
\* 2000 ms timers, set before it, have fired
SettleDue(pending, triggers) ==
    /\ pending > 0
    /\ triggers \cap {"timer1000", "timer2000"} = {}

\* the settle timer fires: window.postMessage({type: 'GET_CANVAS_DATA', ...})
SettleTimerPosts ==
    /\ SettleDue(settlePending, pendingTriggers)
    /\ settlePending' = settlePending - 1
    /\ posted' = posted + 1
    /\ winQueue' = Append(winQueue, SelfGet)
    /\ fout' = Append(fout, "postMessage")
    /\ UNCHANGED << injected, pendingTriggers, extractionInitialized, initRuns,
                    embedInDom, cachedRoot, shadowMode, dom, nextCanvasId, markers,
                    requests, foreignDelivered, metaVars, tagVars, batchVars,
                    fname, fpc, fin >>

\* the init script has run in a loading document of two elements
InitializerInit ==
    /\ injected = TRUE
    /\ pendingTriggers = {"DOMContentLoaded", "load", "timer1000", "timer2000"}
    /\ extractionInitialized = FALSE
    /\ initRuns = 0
    /\ settlePending = 0
    /\ posted = 0
    /\ winQueue = << >>
    /\ embedInDom = "present"
    /\ cachedRoot = "none"
    /\ shadowMode = [e \in Elements |-> "no"]
    /\ dom = [l \in Locations |-> << >>]
    /\ nextCanvasId = 1
    /\ markers = << >>
    /\ requests = << >>
    /\ foreignDelivered = 0
    /\ mpc = "idle"
    /\ metadata = << >>
    /\ afterStructured = << >>
    /\ TagIdle
    /\ BatchIdle
    /\ CallIdle
    /\ \E settings \in TargetSettings,
          tag1, tag2 \in {"smartframe-embed", "div"},
          id1, id2 \in {"null", "img1", "img2"},
          thumbnail1, thumbnail2 \in BOOLEAN,
          size1 \in NaturalSizes,
          size2 \in { << << >>, << >> >>, << << "800" >>, << "600" >> >> } :
          page = [elements |-> [e \in Elements |->
                                  IF e = "e1" THEN MakeElement(tag1, id1, thumbnail1, size1)
                                  ELSE MakeElement(tag2, id2, thumbnail2, size2)],
                  selector |-> settings.selector,
                  imageId |-> settings.imageId]

InitializerNext ==
    \/ \E e \in Elements, mode \in {"open", "closed"} : HookedAttachShadow(e, mode)
    \/ \E t \in pendingTriggers : ResolvingInitializer(t)
    \/ SettleTimerPosts

SpecInitializer == InitializerInit /\ [][InitializerNext]_vars

-----------------------------------------------------------------------------
(* Properties of the capture protocol.                                     *)

Ids(canvases) == { canvases[k].id : k \in 1..Len(canvases) }

StageIds(canvases) == { canvases[k].id : k \in { j \in 1..Len(canvases) : canvases[j].stage } }

CachedCanvases == IF cachedRoot = "none" THEN << >> ELSE dom[cachedRoot]

OwnCanvases ==
    IF ShadowRootProperty(shadowMode) = "none" THEN << >>
    ELSE dom[ShadowRootProperty(shadowMode)]

\* the canvas id request i has after this step suits the priority order of the
\* three locations as they are in this step
AttemptRespectsOrder(i) ==
    LET found == IF requests'[i].phase = "resolved" THEN requests'[i].canvas ELSE 0
    IN  /\ StageIds(CachedCanvases) # {}
            => /\ found \in StageIds(CachedCanvases)
               /\ \A c \in StageIds(CachedCanvases) : found <= c
        /\ CachedCanvases # << >> => found \in Ids(CachedCanvases)
        /\ CachedCanvases = << >> /\ OwnCanvases # << >> => found \in Ids(OwnCanvases)
        /\ CachedCanvases = << >> /\ OwnCanvases = << >> /\ dom["doc"] # << >>
            => found \in Ids(dom["doc"])
        /\ CachedCanvases = << >> /\ OwnCanvases = << >> /\ dom["doc"] = << >>
            => found = 0

\* C1: every tryFind attempt resolves with a canvas of the first of the three
\* locations (cached shadow root, own shadow root, document) that holds one;
\* when the cached shadow root holds a canvas.stage, the attempt resolves with
\* the first such canvas, whatever the other locations hold.
C1_PriorityOrder ==
    [][ \A i \in 1..Len(requests) :
          requests'[i].attempts = requests[i].attempts + 1 => AttemptRespectsOrder(i) ]_vars

\* witness of C1: resolved with the stage canvas of the cached root while
\* another canvas is in the document or in the element's own shadow root
C1_Witness ==
    /\ requests[1].phase = "resolved"
    /\ requests[1].canvas \in StageIds(CachedCanvases)
    /\ \/ dom["doc"] # << >>
       \/ ShadowRootProperty(shadowMode) \notin {"none", cachedRoot} /\ OwnCanvases # << >>

NoCanvasError == "Canvas element not found after all retry attempts"

\* C2: findCanvas never makes a 16th attempt, resolves with no canvas only
\* after exactly 15 attempts, the func then returns the 'not found' error, and
\* a pending retry always ends in a resolution.
C2_FifteenAttempts ==
    /\ [](/\ requests[1].attempts <= maxAttempts
          /\ requests[1].phase = "waiting" => requests[1].attempts < maxAttempts
          /\ requests[1].phase = "resolved" /\ requests[1].canvas = 0
                => requests[1].attempts = maxAttempts
          /\ requests[1].result.error = NoCanvasError
                => /\ requests[1].attempts = maxAttempts
                   /\ requests[1].result.dataUrl = ""
          /\ requests[1].reply.error = NoCanvasError => requests[1].reply.dataUrl = "")
    /\ (requests[1].phase = "waiting") ~> (requests[1].phase = "resolved")

\* witness of C2: all 15 attempts found nothing and the bridge replied Failure
C2_Witness ==
    /\ requests[1].attempts = maxAttempts
    /\ requests[1].canvas = 0
    /\ requests[1].replies = 1
    /\ requests[1].reply.error = NoCanvasError

\* C3: every request to the bridge stems from a message of the page's own
\* origin and window with type GET_CANVAS_DATA, and delivering a message of a
\* frame, of another origin or of another type changes neither the requests
\* nor the marker elements.
C3_OnlyOwnMessages ==
    /\ [](\A i \in 1..Len(requests) :
            /\ requests[i].from.origin = "page"
            /\ requests[i].from.source = "window"
            /\ requests[i].from.type = "GET_CANVAS_DATA")
    /\ [][ foreignDelivered' # foreignDelivered => UNCHANGED << requests, markers >> ]_vars

\* witness of C3: a foreign message was delivered and the page's own was accepted
C3_Witness ==
    /\ foreignDelivered > 0
    /\ Len(requests) = 1
    /\ posted = 1

MarkerAttached ==
    \E k \in 1..Len(markers) :
        markers[k].attrs.dataUrl.present \/ markers[k].attrs.dataError.present

IsCaptureResult(v) ==
    /\ v.defined
    /\ (v.dataUrl # "") # (v.error # "")

\* C5: the bridge calls sendResponse at most once per request, with a value
\* that has either a dataUrl or an error text, and once its listener took the
\* request it does reply.
C5_ExactlyOneReply ==
    /\ [](/\ requests[1].replies <= 1
          /\ requests[1].replies = 1 => IsCaptureResult(requests[1].reply)
          /\ requests[1].replies = 0 => requests[1].reply = Undefined)
    /\ (requests[1].phase = "exec") ~> (requests[1].replies = 1)

\* witness of C5: the reply after a script execution without result
C5_Witness ==
    /\ requests[1].replies = 1
    /\ requests[1].result.dataUrl # ""
    /\ requests[1].reply.error = "No result from script execution"

\* C6: every marker element has exactly one of data-url and data-error, and
\* data-url exactly when the response of its request has a non-empty dataUrl.
C6_OneAttribute ==
    \A k \in 1..Len(markers) :
        LET m == markers[k].attrs
            response == requests[markers[k].req].reply
        IN  /\ m.dataUrl.present # m.dataError.present
            /\ m.dataUrl.present <=> (response.defined /\ response.dataUrl # "")
            /\ m.dataUrl.present => m.dataUrl.value = response.dataUrl
            /\ m.dataError.present => m.dataError.value # ""

\* witness of C6: a marker with data-url
C6_Witness ==
    /\ Len(markers) = 1
    /\ markers[1].attrs.dataUrl.present
    /\ markers[1].attrs.canvas > 0

\* C7: the initializer body runs at most once per page load, so at most one
\* settle timer is set, one message posted and one request created.
C7_InitOnce ==
    /\ initRuns <= 1
    /\ settlePending + posted <= initRuns
    /\ Len(winQueue) + Len(requests) = posted
    /\ extractionInitialized <=> initRuns = 1

\* witness of C7: all four triggers fired, the body ran, the message was posted
C7_Witness ==
    /\ pendingTriggers = {}
    /\ initRuns = 1
    /\ posted = 1

-----------------------------------------------------------------------------
(* Properties of the metadata record.                                      *)

\* the fallback pass has run on a page whose structured pass left a gap
FallbackRan == mpc = "done" /\ page.smartframe /\ MissingFields(afterStructured) # {}

\* C8: every field that holds a non-empty value at the end of the structured
\* pass holds the same value after the fallback pass.
C8_FirstWriterWins ==
    mpc = "done" =>
        \A f \in Fields : Truthy(afterStructured[f]) => metadata[f] = afterStructured[f]

\* a city derived from a "Where:" value of the details paragraph, kept although
\* the fallback pass read a "City:" line with another value
C8_Witness ==
    /\ FallbackRan
    /\ page.container
    /\ page.p = << "Where:", SP, "Ann" >>
    /\ page.items = << >>
    /\ page.body = << "City:", SP, "Paris" >>
    /\ afterStructured.city = << "Ann" >>
    /\ metadata.city = << "Ann" >>

\* a field is unset or a non-empty string without surrounding whitespace
IsCleanField(v) == v = None \/ (v # << >> /\ Strip(v) = v)

\* C9: every field of the returned record is None or a non-empty trimmed
\* string, whatever the page text.
C9_FieldsNoneOrNonEmpty ==
    mpc = "done" => \A f \in Fields : IsCleanField(metadata[f])

\* C10: the structured pass run again on the same page, from the record its
\* first run produced, leaves the record unchanged.
C10_StructuredIdempotent ==
    mpc = "structured" => StructuredRun(page, metadata) = metadata

\* the first run merged a preface into the caption heading and read a marker
C10_Witness ==
    /\ mpc = "structured"
    /\ page.container
    /\ page.h1 # None
    /\ page.p = << "Paris", SP, "UK", SP, "When:", NBSP, "Ann" >>
    /\ metadata.caption = << "Paris", SP, "UK", SP, "|", SP, "Ann" >>
    /\ metadata.date = << "Ann" >>
    /\ StructuredRun(page, metadata).caption = metadata.caption

\* the fields a marker of the details paragraph fills
MarkerFields == {"featuring", "location", "date", "credit", "image_id", "image_size"}

\* some marker occurs in the text
HoldsMarker(t) == \E k \in 1..Len(DetailMarkers) : HasToken(t, DetailMarkers[k])

\* the paragraph "Featuring: A Where: C1, C2 When: D" on one line
OneLineParagraph ==
    << "Featuring:", SP, "Ann", SP, "Where:", SP, "Paris", COMMA, SP, "UK", SP,
       "When:", NBSP, "Ann" >>

\* C11: markers that follow one another on one line, separated by spaces, are
\* split where the next marker begins: no value of a marker field holds a
\* marker, and "Featuring: A Where: C1, C2 When: D" yields featuring A,
\* location "C1, C2", city C1, country C2 and date D.
C11_MarkersSplitOnOneLine ==
    (mpc = "structured" /\ page.container) =>
        /\ \A f \in MarkerFields : metadata[f] # None => ~HoldsMarker(metadata[f])
        /\ page.p = OneLineParagraph =>
              /\ metadata.featuring = << "Ann" >>
              /\ metadata.location = << "Paris", COMMA, SP, "UK" >>
              /\ metadata.city = << "Paris" >>
              /\ metadata.country = << "UK" >>
              /\ metadata.date = << "Ann" >>

\* the structured pass has read the one-line paragraph
C11_Witness ==
    /\ mpc = "structured"
    /\ page.container
    /\ page.p = OneLineParagraph
    /\ metadata.featuring = << "Ann" >>
    /\ metadata.date = << "Ann" >>

-----------------------------------------------------------------------------
(* Properties of the tag writer.                                           *)

\* the text None or '' would leave in an argument
IsBlankValue(v) == v = << >> \/ HasToken(v, "<None>")

\* C12: no assignment of the command takes its value from an unset field
\* (None or empty), and when every field is unset no assignment is built and
\* the external tool is not run.
C12_NoAssignmentFromUnsetField ==
    tpc = "done" =>
        /\ \A k \in 1..Len(command) :
              /\ \A f \in command[k].from : Truthy(metadata[f])
              /\ ~IsBlankValue(command[k].value)
        /\ (\A f \in Fields : ~Truthy(metadata[f])) => command = << >> /\ toolRuns = 0

\* a record with set, unset and empty fields was mapped and the tool was run
C12_Witness ==
    /\ tpc = "done"
    /\ toolRuns = 1
    /\ metadata.caption = << >>
    /\ metadata.title = None
    /\ metadata.date = << >>
    /\ metadata.credit = << "Getty" >>
    /\ \E k \in 1..Len(command) : command[k].tag = "IPTC:Credit"
    /\ \E k \in 1..Len(command) : command[k].tag = "EXIF:UserComment"

-----------------------------------------------------------------------------
(* Properties of the batch.                                                *)

\* the URLs process_url has returned a record for
Returned == 1..Len(allResults)

\* the marker element found for URL i carries data-error
CarriesError(i) == Truthy(GetAttribute(history[i].found.dataError))

C14_TimeoutIsFinal ==
    /\ \A i \in 1..Len(history) :
          history[i].launches <= 1 /\ history[i].navigations <= 1 /\ history[i].waits <= 1
    /\ \A i \in Returned :
          history[i].timedOut =>
              /\ allResults[i].Status = "Failed"
              /\ allResults[i].ErrorMessage # << >>
              /\ history[i].files = {}

\* a timed-out URL has its record and the loop has moved on
C14_Witness ==
    /\ Len(urls) = 2
    /\ urlIndex = 2
    /\ upc = "wait"
    /\ history[1].timedOut
    /\ history[1].waits = 1
    /\ allResults[1].Status = "Failed"

\* C15: every browser context process_url launched is closed when it
\* returns, on every path, so at most one context is open at any time and
\* none between two URLs.
C15_ContextAlwaysClosed ==
    /\ openContexts <= 1
    /\ upc \in {"next", "idle"} => openContexts = 0
    /\ \A i \in Returned :
          history[i].closes = IF history[i].navigations > 0 THEN 1 ELSE 0

\* the session of a URL that failed is closed and the next session is open
C15_Witness ==
    /\ Len(urls) = 2
    /\ urlIndex = 2
    /\ openContexts = 1
    /\ history[1].exception = "goto"
    /\ history[1].closes = 1

\* C16: a batch of n URLs ends with n records, in input order, one per URL.
C16_OneRecordPerUrl ==
    batch \in {"done", "aborted"} =>
        /\ Len(allResults) = Len(urls)
        /\ \A i \in 1..Len(urls) : allResults[i].OriginalURL = urls[i]

\* C17: once the image file is written, a failing later step returns False
\* and raises nothing (the one exception left is that of closing the
\* context): the file stays and the record has Status "Success".
C17_ImageKeptOnStepFailure ==
    \A i \in Returned :
        history[i].files # {} =>
            /\ "png" \in history[i].files
            /\ history[i].exception \in { "none", "close" }
            /\ allResults[i].Status = "Success"
            /\ allResults[i].OutputFilename \in history[i].files

\* conversion and tag writing failed, the PNG is the output
C17_Witness ==
    /\ Len(allResults) = 1
    /\ history[1].failedSteps = {"convert_png_to_jpg", "write_metadata_to_image"}
    /\ history[1].files = {"png"}
    /\ allResults[1].Status = "Success"
    /\ allResults[1].OutputFilename = "png"

-----------------------------------------------------------------------------
(* Properties of the date normalization.                                   *)

NormalizeReturned == fname = "_normalize_date" /\ fpc = "returned"

\* the year a dotted date names: 20yy below the pivot, 19yy from it on
NamedYear(s) ==
    LET yy == SubSeq(s, 7, Len(s))
    IN  IF Len(yy) = 4 THEN ToInt(yy)
        ELSE IF ToInt(yy) < 50 THEN 2000 + ToInt(yy) ELSE 1900 + ToInt(yy)

-----------------------------------------------------------------------------
(* Properties of the URL analysis.                                         *)

SmartframeHost == << "smartframe", ".", "com" >>

ForeignHosts == { << "example", ".", "com" >>, << "notsmartframe", ".", "com" >> }

\* the URL is https://smartframe.com/search/image/<hash>/<image_id> with or
\* without a query string
IsImageUrlOf(url, hash, image_id) ==
    \E query \in Queries : url = MakeUrl(SmartframeHost, ImagePath(hash, image_id), query)

-----------------------------------------------------------------------------
(* Further properties of the capture protocol.                             *)

\* the request made all its attempts and found no canvas
Exhausted(r) == r.attempts = maxAttempts /\ r.canvas = 0 /\ r.result.defined

\* C21 as stated: after the last attempt the Failure's reason is the text
\* 'canvas not found after all retries'
C21_ReasonAsStated ==
    Exhausted(requests[1]) => requests[1].result.error = "canvas not found after all retries"

\* C21: when the capture loop exhausts its attempts the Failure's reason is
\* exactly 'Canvas element not found after all retry attempts', and once the
\* bridge has replied with that Failure the same text is the data-error
\* attribute of the marker element, which then carries no data-url
C21_ExhaustionReason ==
    /\ Exhausted(requests[1])
          => /\ requests[1].result.error = "Canvas element not found after all retry attempts"
             /\ requests[1].result.dataUrl = ""
    /\ \A k \in 1..Len(markers) :
          requests[markers[k].req].reply.error = "Canvas element not found after all retry attempts"
             => /\ markers[k].attrs.dataError
                     = Attr("Canvas element not found after all retry attempts")
                /\ ~markers[k].attrs.dataUrl.present

\* all attempts found nothing and the marker carries the reason
C21_Witness ==
    /\ Exhausted(requests[1])
    /\ Len(markers) = 1
    /\ markers[1].req = 1
    /\ markers[1].attrs.dataError = Attr("Canvas element not found after all retry attempts")

Searching(r) == r.phase \in {"exec", "waiting"}

SearchOver(r) == r.phase \in {"resolved", "returned", "replied", "closed"}

\* C22: attempts run one after another: an attempt starts only from the
\* start of the search or from the one pending retry timer, and that timer was
\* set by an attempt that found no canvas; there is never more than one
\* pending timer; once an attempt has found a canvas the search is resolved
\* with that canvas, no timer is pending and no further attempt is made
C22_AttemptsSequential ==
    /\ [](\A i \in 1..Len(requests) :
            /\ requests[i].timers <= 1
            /\ requests[i].timers = 1 <=> requests[i].phase = "waiting"
            /\ requests[i].phase = "waiting" => requests[i].canvas = 0
            /\ requests[i].canvas # 0 => ~Searching(requests[i]))
    /\ [][ \A i \in 1..Len(requests) :
            /\ requests'[i].attempts # requests[i].attempts
                  => /\ requests'[i].attempts = requests[i].attempts + 1
                     /\ Searching(requests[i])
                     /\ requests[i].canvas = 0
                     /\ requests[i].phase = "waiting" => requests[i].timers = 1
                     /\ requests'[i].timers = 1 => requests'[i].canvas = 0
            /\ SearchOver(requests[i])
                  => /\ requests'[i].attempts = requests[i].attempts
                     /\ requests'[i].canvas = requests[i].canvas
                     /\ requests'[i].timers = 0
                     /\ SearchOver(requests'[i]) ]_vars

\* the third attempt found a canvas after two retries, and the search is over
C22_Witness ==
    /\ requests[1].attempts = 3
    /\ requests[1].canvas # 0
    /\ requests[1].timers = 0
    /\ requests[1].phase = "returned"

-----------------------------------------------------------------------------
(* Properties of the initializer.                                          *)

IsTargetTag(el) == el.tag = "smartframe-embed"

MatchesTargetId(el) == page.imageId # "null" /\ el.imageId = page.imageId

MatchesTargetSelector(el) ==
    /\ page.selector.kind \in {"tag", "notThumbnail", "imageId"}
    /\ IsTargetTag(el)
    /\ page.selector.kind = "notThumbnail" => ~el.thumbnail
    /\ page.selector.kind = "imageId" => el.imageId = page.selector.id

\* the slot holds the shadow root of an element with the exact target id
SlotHoldsTarget ==
    \E e \in Elements : cachedRoot = RootOf(e) /\ MatchesTargetId(page.elements[e])

\* C23: an attachShadow call changes the captured shadow-root slot only when
\* it is made on a target-tag element that matches the target identifier or
\* the target selector, or while the slot is empty; once the slot holds the
\* shadow root of the element with the exact target identifier, a call on a
\* target-tag element that matches neither leaves it alone; a call on an
\* element of another tag never changes the slot
C23_SlotFirstMatchOrExact ==
    [][ \A e \in Elements :
          shadowMode'[e] # shadowMode[e] =>
              LET el == page.elements[e]
              IN  /\ cachedRoot' # cachedRoot
                        => /\ IsTargetTag(el)
                           /\ cachedRoot' = RootOf(e)
                           /\ \/ MatchesTargetId(el)
                              \/ MatchesTargetSelector(el)
                              \/ cachedRoot = "none"
                  /\ (SlotHoldsTarget /\ IsTargetTag(el)
                        /\ ~MatchesTargetId(el) /\ ~MatchesTargetSelector(el))
                        => cachedRoot' = cachedRoot
                  /\ ~IsTargetTag(el) => cachedRoot' = cachedRoot ]_vars

\* the slot holds the root of the target e2 although the embed e1, which has
\* another image id, attached a shadow root as well
C23_Witness ==
    /\ page.imageId = "img1"
    /\ page.elements["e2"].imageId = "img1"
    /\ IsTargetTag(page.elements["e2"])
    /\ IsTargetTag(page.elements["e1"])
    /\ page.elements["e1"].imageId = "img2"
    /\ shadowMode["e1"] # "no"
    /\ shadowMode["e2"] # "no"
    /\ cachedRoot = "r2"

\* the first element in document order with the property
FirstElement(Has(_)) ==
    IF Has(page.elements["e1"]) THEN "e1"
    ELSE IF Has(page.elements["e2"]) THEN "e2"
    ELSE "null"

HasTargetId(el) == IsTargetTag(el) /\ MatchesTargetId(el) /\ page.imageId # BadImageId

NotInThumbnailMode(el) == IsTargetTag(el) /\ ~el.thumbnail

\* the element the selector order names: exact image identifier, then the
\* caller's selector, then 'not in thumbnail mode', then the bare tag; a
\* selector that is invalid matches nothing
ElementInSelectorOrder ==
    IF FirstElement(HasTargetId) # "null" THEN FirstElement(HasTargetId)
    ELSE IF FirstElement(MatchesTargetSelector) # "null"
    THEN FirstElement(MatchesTargetSelector)
    ELSE IF FirstElement(NotInThumbnailMode) # "null" THEN FirstElement(NotInThumbnailMode)
    ELSE FirstElement(IsTargetTag)

\* C24: the initializer resolves the target element with the first selector
\* that matches anything, in the order exact image identifier, caller's
\* selector, 'not in thumbnail mode', bare tag; a selector that throws is
\* skipped; an element with the target identifier is chosen even when other
\* embed elements precede it in the document
C24_ResolvedInSelectorOrder ==
    fname = "initSmartFrameExtraction" =>
        /\ fin.element = ElementInSelectorOrder
        /\ fpc = "not found" <=> fin.element = "null"
        /\ (page.imageId = "img1" /\ HasTargetId(page.elements["e2"])
              /\ ~HasTargetId(page.elements["e1"]))
              => fin.element = "e2"
        /\ (page.imageId = BadImageId /\ IsTargetTag(page.elements["e1"]))
              => fin.element # "null"

\* the target e2 was resolved although the embed e1 precedes it
C24_Witness ==
    /\ fname = "initSmartFrameExtraction"
    /\ page.imageId = "img1"
    /\ IsTargetTag(page.elements["e1"])
    /\ ~page.elements["e1"].thumbnail
    /\ page.elements["e1"].imageId = "img2"
    /\ HasTargetId(page.elements["e2"])
    /\ fin.element = "e2"
    /\ fin.selector = ImageIdSelector("img1")

\* a natural-size property that is absent, empty or zero
NoNaturalSize(v) == v = << >> \/ v = << "0" >> \/ v = << "0", "px" >>

\* the text with a px unit
WithPx(v) == IF v[Len(v)] = "px" THEN v ELSE v \o << "px" >>

\* C25: when the initializer has run its body, width, max-width, height and
\* max-height of the target element are all set: to 9999px each when either
\* natural-size property is absent, empty or zero, and otherwise to the
\* natural width and the natural height with a px unit; never one dimension
\* from the natural size and the other from the fallback
C25_BoxForcedAsAWhole ==
    (fname = "initSmartFrameExtraction" /\ fpc = "returned") =>
        LET el == page.elements[fin.element]
            w == el.natural[1]
            h == el.natural[2]
        IN  /\ el.box.width = el.box.maxWidth
            /\ el.box.height = el.box.maxHeight
            /\ el.box.width # << >>
            /\ el.box.height # << >>
            /\ (NoNaturalSize(w) \/ NoNaturalSize(h))
                  => /\ el.box.width = << "9999", "px" >>
                     /\ el.box.height = << "9999", "px" >>
            /\ (~NoNaturalSize(w) /\ ~NoNaturalSize(h))
                  => /\ el.box.width = WithPx(w)
                     /\ el.box.height = WithPx(h)

\* the element has a natural width but no natural height, and the whole box
\* was forced to the fallback
C25_Witness ==
    /\ fname = "initSmartFrameExtraction"
    /\ fpc = "returned"
    /\ fin.element = "e1"
    /\ page.elements["e1"].natural = << << "800" >>, << >> >>
    /\ page.elements["e1"].box = FallbackBox

\* C26: GET_CANVAS_DATA is posted only after the target element was
\* resolved, its box forced to size and the resize event dispatched, in that
\* order, and only by the settle timer that was set after those steps; it is
\* never posted before them
C26_PostedAfterSettle ==
    /\ [](/\ posted > 0
              => /\ fname = "initSmartFrameExtraction"
                 /\ fpc = "returned"
                 /\ initRuns = 1
                 /\ fin.element # "null"
                 /\ page.elements[fin.element].box # NoBox
                 /\ fout = << "resolve", "style", "resize", "setTimeout", "postMessage" >>
          /\ posted <= initRuns
          /\ Len(winQueue) <= posted)
    /\ [][ posted' # posted
             => /\ posted' = posted + 1
                /\ settlePending > 0
                /\ settlePending' = settlePending - 1
                /\ fout = << "resolve", "style", "resize", "setTimeout" >>
                /\ page.elements[fin.element].box # NoBox ]_vars

\* the message was posted after the box of the resolved element was forced
C26_Witness ==
    /\ posted = 1
    /\ winQueue = << SelfGet >>
    /\ fout = << "resolve", "style", "resize", "setTimeout", "postMessage" >>
    /\ page.elements[fin.element].box = FallbackBox

-----------------------------------------------------------------------------
(* Further properties of the metadata record.                              *)

\* the page without its details paragraph
WithoutParagraph(pg) == [pg EXCEPT !.p = None]

\* the page without the "Where:" lines of its body text
WithoutWhereLines(pg) ==
    [pg EXCEPT !.body =
        Join(SelectSeq(Split(pg.body, NL), LAMBDA line : ~StartsWith(Strip(line), "Where:")),
             << NL >>)]

\* What a "Where:" value with the non-empty parts may have done to the record
\* md, where without is the record the same pass yields when the "Where:" value
\* is taken away: city is the first part unless it was set from elsewhere, and
\* country is the last of two or more parts unless it was set from elsewhere,
\* and is left alone by a single part.
WhereRule(md, parts, without) ==
    /\ md.city \in { parts[1], without.city }
    /\ ~Truthy(without.city) => md.city = parts[1]
    /\ IF Len(parts) = 1
       THEN md.country = without.country
       ELSE /\ md.country \in { parts[Len(parts)], without.country }
            /\ ~Truthy(without.country) => md.country = parts[Len(parts)]

\* the structured pass has read a "Where:" value from the details paragraph
StructuredWhere == mpc = "structured" /\ Truthy(metadata.location)

\* the fallback pass has read a "Where:" value from the body text
FallbackWhere ==
    /\ FallbackRan
    /\ ~Truthy(afterStructured.location)
    /\ Truthy(metadata.location)

\* C27: in the structured pass and in the fallback pass, a "Where:" value with
\* exactly one non-empty comma-separated part populates city only and never
\* country; a value with two or more parts populates city from the first part
\* and country from the last part, each only if that field is still unset.
C27_WhereCityCountry ==
    /\ StructuredWhere =>
          WhereRule(metadata, WhereParts(metadata.location),
                    StructuredRun(WithoutParagraph(page), EmptyMetadata))
    /\ FallbackWhere =>
          WhereRule(metadata, WhereParts(metadata.location),
                    FallbackRun(WithoutWhereLines(page), afterStructured))

\* C28: in every returned record, a set caption comes with a set title and a
\* set subject, which are the caption when the structured pass populated
\* neither; whether or not the fallback pass ran.
C28_CaptionGivesTitleAndSubject ==
    (mpc = "done" /\ Truthy(metadata.caption)) =>
        /\ Truthy(metadata.title)
        /\ Truthy(metadata.subject)
        /\ ~Truthy(afterStructured.title) => metadata.title = metadata.caption
        /\ ~Truthy(afterStructured.subject) => metadata.subject = metadata.caption

\* the fields a branch of the fallback pass assigns
FallbackFillable ==
    { "date", "credit", "featuring", "location", "city", "country", "image_id",
      "image_size", "photographer", "caption" }

\* C29: the fallback pass runs exactly when at least one of the fields it can
\* fill (date, credit, featuring, location, city, country, image id, image
\* size, photographer, caption) is unset after the structured pass, and does
\* not run when none of them is missing.
C29_FallbackRunsForFillableFields ==
    (mpc = "done" /\ page.smartframe) =>
        (FallbackRan <=> \E f \in FallbackFillable : ~Truthy(afterStructured[f]))

\* the markers a caption may not start with
CaptionExcludedMarkers ==
    { "Featuring:", "Where:", "When:", "Credit:", "SmartFrame image ID:", "Image size:",
      "Photographer:", "Country:", "City:" }

\* the fallback pass has set a caption the structured pass had not found
HeuristicCaption ==
    /\ FallbackRan
    /\ ~Truthy(afterStructured.caption)
    /\ Truthy(metadata.caption)

\* C30: the caption heuristic of the fallback pass sets caption only when
\* caption is unset and provider is set, and only to the line that immediately
\* follows a line equal to the provider label, provided that line starts with
\* none of the markers (Featuring:, Where:, When:, Credit:, SmartFrame image
\* ID:, Image size:, Photographer:, Country:, City:) and is longer than
\* MIN_CAPTION_LENGTH characters; otherwise caption stays unset.
C30_CaptionHeuristic ==
    LET lines == Split(page.body, NL)
    IN  /\ (FallbackRan /\ Truthy(afterStructured.caption)) =>
              metadata.caption = afterStructured.caption
        /\ HeuristicCaption =>
              /\ Truthy(metadata.provider)
              /\ \E i \in 1..(Len(lines) - 1) :
                    /\ Strip(lines[i]) = metadata.provider
                    /\ Strip(lines[i + 1]) = metadata.caption
              /\ \A m \in CaptionExcludedMarkers : ~StartsWith(metadata.caption, m)
              /\ TextLen(metadata.caption) > MIN_CAPTION_LENGTH

-----------------------------------------------------------------------------
(* Properties of the structured pass.                                      *)

\* the stripped non-empty lines in front of the first line that starts with a
\* marker
RECURSIVE LinesBeforeMarker(_)
LinesBeforeMarker(lines) ==
    IF lines = << >> THEN << >>
    ELSE LET line == Strip(Head(lines))
         IN  IF line = << >> THEN LinesBeforeMarker(Tail(lines))
             ELSE IF LineStartsWithMarker(line) THEN << >>
             ELSE << line >> \o LinesBeforeMarker(Tail(lines))

\* the preface text of the page: those lines joined with " | "
PrefaceText(pg) ==
    IF ~Truthy(pg.p) THEN << >>
    ELSE Join(LinesBeforeMarker(NormalizedLines(pg.p)), PrefaceSeparator)

\* the structured pass has read the container of the page
StructuredDone == mpc = "structured" /\ page.container

\* C31: the non-marker lines in front of the first marker line are joined in
\* document order with " | " into the preface text, lines after the first
\* marker never being part of it; the preface text becomes caption, title and
\* subject only as a fallback, so a caption read from the caption heading is
\* not changed by the preface.
C31_PrefaceIsFallbackText ==
    StructuredDone =>
        LET prefaceText == PrefaceText(page)
            heading == HeadingText(page.h1)
        IN  /\ metadata.title = (IF prefaceText = << >> THEN None ELSE prefaceText)
            /\ metadata.subject = metadata.title
            /\ heading # None => metadata.caption = heading
            /\ heading = None =>
                  metadata.caption = (IF prefaceText = << >> THEN None ELSE prefaceText)

\* C31 (amended): the preface text is the non-marker lines in front of the
\* first marker line joined with " | "; it becomes title and subject, and it
\* becomes the caption when the heading gave none; a caption read from the
\* heading gets the preface text put in front of it, joined with " | ",
\* unless it already contains the preface text.
C31_PrefaceMerged ==
    StructuredDone =>
        LET prefaceText == PrefaceText(page)
            heading == HeadingText(page.h1)
        IN  /\ metadata.title = (IF prefaceText = << >> THEN None ELSE prefaceText)
            /\ metadata.subject = metadata.title
            /\ heading = None =>
                  metadata.caption = (IF prefaceText = << >> THEN None ELSE prefaceText)
            /\ heading # None =>
                  metadata.caption =
                      IF prefaceText = << >> \/ Contains(heading, prefaceText) THEN heading
                      ELSE prefaceText \o PrefaceSeparator \o heading

\* two preface lines in front of a marker line were joined and put in front
\* of the caption heading
C31_Witness ==
    /\ StructuredDone
    /\ page.h1 = << SP, "Ann", SP >>
    /\ page.p = << "Ann", NL, "Paris", SP, "UK", NL, "When:" >>
    /\ metadata.title = << "Ann", SP, "|", SP, "Paris", SP, "UK" >>
    /\ metadata.caption = << "Ann", SP, "|", SP, "Paris", SP, "UK", SP, "|", SP, "Ann" >>

\* the values of the lines that start with the marker, in document order
RECURSIVE MarkerValues(_, _)
MarkerValues(lines, marker) ==
    IF lines = << >> THEN << >>
    ELSE LET line == Strip(Head(lines))
             rest == MarkerValues(Tail(lines), marker)
         IN  IF StartsWith(line, marker) THEN << Strip(Remove(line, marker)) >> \o rest
             ELSE rest

\* the marker of each field the details paragraph fills
MarkerOf ==
    [ date |-> "When:", credit |-> "Credit:", featuring |-> "Featuring:",
      location |-> "Where:", image_id |-> "SmartFrame image ID:",
      image_size |-> "Image size:" ]

\* the lines of the paragraph of the page, split at the markers
ParagraphLines(pg) == IF ~Truthy(pg.p) THEN << >> ELSE NormalizedLines(pg.p)

\* the first non-empty one of the values, the empty text when all are empty,
\* None when there is none
FirstValue(values) ==
    LET set == SelectSeq(values, LAMBDA v : v # << >>)
    IN  IF set # << >> THEN set[1] ELSE IF values # << >> THEN << >> ELSE None

\* city and country a "Where:" value supplies
WhereCity(location) ==
    IF location = None \/ WhereParts(location) = << >> THEN None
    ELSE WhereParts(location)[1]

WhereCountry(location) ==
    IF location = None \/ Len(WhereParts(location)) < 2 THEN None
    ELSE WhereParts(location)[Len(WhereParts(location))]

\* what the list items yield when they are scanned alone
ListAlone(pg) == ListItems(EmptyMetadata, pg.items)

\* the field holds the paragraph's value when that is set, and what the list
\* alone yields otherwise, an empty paragraph value standing when the list
\* has none
ParagraphThenList(value, fromParagraph, fromList) ==
    IF Truthy(fromParagraph) THEN value = fromParagraph
    ELSE IF Truthy(fromList) \/ fromParagraph = None THEN value = fromList
    ELSE value = << >>

-----------------------------------------------------------------------------
(* Properties of extract_smartframe_metadata when page calls raise.        *)

\* the thirteen fields of a record
RecordFields ==
    { "caption", "title", "subject", "date", "credit", "photographer", "provider",
      "featuring", "image_id", "image_size", "city", "country", "location" }

\* C33: the record extract_smartframe_metadata holds and returns has exactly
\* the thirteen fields caption, title, subject, date, credit, photographer,
\* provider, featuring, image_id, image_size, city, country and location on
\* every path: URL off smartframe.com, container absent, a step raising,
\* fallback skipped or raising.
C33_FixedFieldSet ==
    mpc \in { "structured", "done" } =>
        /\ DOMAIN metadata = RecordFields
        /\ Cardinality(DOMAIN metadata) = 13

\* a record was returned although the body text could not be read, with what
\* the structured pass had found
C33_Witness ==
    /\ mpc = "done"
    /\ page.smartframe
    /\ page.container
    /\ page.raises = { "body" }
    /\ MissingFields(afterStructured) # {}
    /\ metadata.provider = << "Getty" >>
    /\ DOMAIN metadata = RecordFields

\* the page with nothing raising
Calm(pg) == [pg EXCEPT !.raises = {}]

\* the page as it is when the content the raising step would have read is
\* not there
Absent(pg, step) ==
    CASE step = "container" -> [Calm(pg) EXCEPT !.container = FALSE]
      [] step = "provider" -> [Calm(pg) EXCEPT !.h2 = None]
      [] step = "caption" -> [Calm(pg) EXCEPT !.h1 = None]
      [] step = "details" -> [Calm(pg) EXCEPT !.p = None]
      [] step = "list" -> [Calm(pg) EXCEPT !.items = << >>]

\* the structured steps that come before the step
StepsBefore(step) ==
    CASE step = "container" -> << >>
      [] step = "provider" -> << >>
      [] step = "caption" -> << "provider" >>
      [] step = "details" -> << "provider", "caption" >>
      [] step = "list" -> << "provider", "caption", "details" >>

\* the record at the moment the step raises
BeforeFailure(pg, step) ==
    IF step = "body" THEN StructuredRun(Calm(pg), EmptyMetadata)
    ELSE IF ~pg.container THEN EmptyMetadata
    ELSE RunSteps(Calm(pg), EmptyMetadata, StepsBefore(step), 1)

\* the call has returned from a smartframe.com page on which the step raised
ReturnedAfterFailure(step) == mpc = "done" /\ page.smartframe /\ page.raises = { step }

\* C34: extract_smartframe_metadata does not raise when one step fails
\* (container lookup, provider, caption heading, details paragraph, list
\* items, body text of the fallback): the fields populated before the failure
\* keep their values, the remaining steps run as they do on a page that lacks
\* what the failed step reads, and a record is returned.
C34_FailureIsContained ==
    \A step \in Steps :
        ReturnedAfterFailure(step) =>
            LET before == BeforeFailure(page, step)
            IN  /\ \A f \in Fields : Truthy(before[f]) => metadata[f] = before[f]
                /\ step # "body" =>
                      metadata = FallbackRun(Absent(page, step),
                                             StructuredRun(Absent(page, step), EmptyMetadata))
                /\ step = "body" => metadata = before

\* the details paragraph could not be read: provider and caption heading are
\* kept, and the list items and the body text were still read
C34_Witness ==
    /\ ReturnedAfterFailure("details")
    /\ page.container
    /\ page.p # None
    /\ Len(page.items) = 5
    /\ page.body = << "When:", SP, "UK" >>
    /\ metadata.provider = << "Getty" >>
    /\ metadata.caption = << "Ann" >>
    /\ metadata.photographer = << "Getty" >>
    /\ metadata.date = << "UK" >>

-----------------------------------------------------------------------------
(* Further properties of the tag writer.                                   *)

\* the parts "Label: value" of a comment text
RECURSIVE StripAll(_)
StripAll(texts) ==
    IF texts = << >> THEN << >> ELSE << Strip(Head(texts)) >> \o StripAll(Tail(texts))

CommentTexts(comment) == StripAll(Split(comment, "|"))

\* label and value of one part
PartLabel(part) == part[1]
PartValue(part) == SubSeq(part, 3, Len(part))

IsUserComment(assignment) == assignment.tag \in { "EXIF:UserComment", "XMP:UserComment" }

\* C35: the comment write_metadata_to_image builds never holds the image
\* size, and never holds one value twice: a populated field whose value
\* equals the value of a field already in the comment (photographer equal to
\* credit, subject or title equal to caption, provider equal to credit) is
\* left out.
C35_CommentWithoutSizeOrDuplicates ==
    tpc = "done" =>
        \A k \in 1..Len(command) :
            IsUserComment(command[k]) =>
                LET parts == CommentTexts(command[k].value)
                IN  /\ "image_size" \notin command[k].from
                    /\ \A i \in 1..Len(parts) : PartLabel(parts[i]) # "Image size:"
                    /\ \A i, j \in 1..Len(parts) :
                          i < j => PartValue(parts[i]) # PartValue(parts[j])

-----------------------------------------------------------------------------
(* Properties of the record process_url returns.                           *)

\* the marker element found for URL i carries a data-url with the PNG prefix
CarriesPngUrl(i) == history[i].found.dataUrl = Attr("data:image/png;base64,")

\* the marker element found for URL i carries a data-url
CarriesUrl(i) == history[i].found.dataUrl.present

\* C36: process_url sets Status "Success" only if the marker element carried
\* no data-error and a data-url that starts with "data:image/png;base64,";
\* with both attributes present the error wins, and a data-url without the
\* prefix gives Status "Failed" and no image file.
C36_SuccessNeedsPngUrlAndNoError ==
    \A i \in Returned :
        /\ allResults[i].Status = "Success" => ~CarriesError(i) /\ CarriesPngUrl(i)
        /\ CarriesError(i) /\ CarriesUrl(i) =>
              /\ allResults[i].Status = "Failed"
              /\ history[i].files = {}
        /\ CarriesUrl(i) /\ ~CarriesPngUrl(i) =>
              /\ allResults[i].Status = "Failed"
              /\ allResults[i].OutputFilename = "N/A"
              /\ history[i].files = {}

\* a marker with both attributes was reported as the error, and a data URL
\* without the prefix was refused
C36_Witness ==
    /\ Len(allResults) = 2
    /\ CarriesError(1) /\ CarriesPngUrl(1)
    /\ allResults[1].Status = "Failed"
    /\ allResults[1].ErrorMessage = << "Extension reported error:", "Tainted canvas" >>
    /\ history[2].found.dataUrl = Attr("data:,")
    /\ allResults[2].Status = "Failed"
    /\ allResults[2].ErrorMessage = << "No valid image data URL received from extension." >>

\* C37: every record process_url returns is consistent: Status is "Success"
\* exactly when Error Message is "N/A" and Output Filename is not "N/A"; a
\* record with Status "Failed" has Output Filename "N/A" and a non-empty
\* Error Message; also when closing the browser context raises.
C37_RecordIsConsistent ==
    \A i \in Returned :
        /\ allResults[i].Status = "Success" <=>
              /\ allResults[i].ErrorMessage = << "N/A" >>
              /\ allResults[i].OutputFilename # "N/A"
        /\ allResults[i].Status = "Failed" =>
              /\ allResults[i].OutputFilename = "N/A"
              /\ allResults[i].ErrorMessage # << >>

\* every trigger of the init script has fired and none found an element
NoElementAtAnyTrigger ==
    /\ injected
    /\ pendingTriggers = {}
    /\ initRuns = 0

\* process_url has returned a "Failed" record after the wait timed out
FailedOnTimeout ==
    /\ Len(allResults) = 1
    /\ history[1].timedOut
    /\ allResults[1].Status = "Failed"
    /\ allResults[1].ErrorMessage # << >>

\* C38: when no element matching a selector of the initializer exists at
\* the moment each trigger fires (DOM-ready, load, the 1000 ms and the
\* 2000 ms timer), the initializer never posts GET_CANVAS_DATA, no marker
\* element is created for that page load, and process_url ends with Status
\* "Failed" when the marker wait expires.
C38_NoElementEndsInTimeout ==
    /\ [](initRuns = 0 =>
            /\ settlePending = 0
            /\ posted = 0
            /\ requests = << >>
            /\ markers = << >>
            /\ responseMarker = NoMarker)
    /\ (upc = "wait" /\ NoElementAtAnyTrigger) ~> FailedOnTimeout

\* the four triggers fired on a page without the element, the wait timed
\* out and the record is returned
C38_Witness ==
    /\ NoElementAtAnyTrigger
    /\ embedInDom = "absent"
    /\ posted = 0
    /\ markers = << >>
    /\ FailedOnTimeout

-----------------------------------------------------------------------------
(* Further properties of the URL analysis.                                 *)

\* C39: the two SmartFrame-URL checks agree for every URL:
\* extract_smartframe_metadata attempts extraction exactly when process_url
\* classifies the URL as a SmartFrame URL (host smartframe.com or a
\* subdomain of it).
C39_UrlChecksAgree ==
    fname = "extract_smartframe_metadata" /\ fpc = "returned" =>
        (fout[2] = "attempted" <=> fout[1] = "smartframe")

=============================================================================
